---- MODULE Spec2Model ----
(***************************************************************************)
(* Compliance analysis pipeline of the Gemini compliance monitor:          *)
(*   RegulationParser  -> SystemAuditor -> score -> FixSuggester ->        *)
(*   risk assessment   -> report        -> result                          *)
(* (src/src/compliance_monitor.py, audit_system.py, fix_suggester.py,      *)
(* regulation_parser.py).                                                  *)
(*                                                                         *)
(* Representation of Python values                                         *)
(*   - a dict is a TLA+ record/function; d.get(k, dflt) is Get-style       *)
(*     "IF k \in DOMAIN d THEN d[k] ELSE dflt";                            *)
(*   - a value whose Python type varies is a record [type, n, s];          *)
(*   - a str is a TLA+ string; its characters are given by Chars(s);       *)
(*   - money is counted in cents, a fine percentage in percent, so that    *)
(*     revenue * fine_percentage is an integer number of 1/100 cents and   *)
(*     round(x, 2) is rounding to whole cents;                             *)
(*   - the score is the exact rational num/den (den = total_checks); the   *)
(*     binary floating-point error of the running subtraction (< 1e-12)    *)
(*     is not represented.                                                 *)
(***************************************************************************)
EXTENDS Integers, Sequences, FiniteSets, TLC

VARIABLES
    model,              \* the generation backend handed to the three components (None or a model)
    regulation_files,   \* data/regulations/<name>.json on disk
    regulation_cache,   \* RegulationParser.regulation_cache
    pc,                 \* position of the analyze_compliance call
    company_data,       \* argument of analyze_compliance
    regulations,        \* argument of analyze_compliance
    parsed_regulations, \* local of analyze_compliance (step 1)
    audit_results,      \* local of analyze_compliance (step 2)
    compliance_score,   \* local of analyze_compliance (step 3)
    suggested_fixes,    \* local of analyze_compliance (step 4)
    produced_fixes,     \* local `fixes` of suggest_fixes, before they are prioritized
    risk_level,         \* local of analyze_compliance (step 5)
    estimated_fine,     \* local of analyze_compliance (step 5)
    audit_report,       \* local of analyze_compliance (step 6)
    result,             \* value returned by analyze_compliance
    propagated,         \* TRUE iff an exception left analyze_compliance
    twin,               \* two audit results scored and assessed side by side
    consulted,          \* the sources the components consulted during the call, in order
    parser_log,         \* the sources the parser consulted since the system was built
    callers,            \* parse_regulations calls in progress on the one parser, by caller
    requests            \* number of analyze_compliance calls made on this system

vars == <<model, regulation_files, regulation_cache, pc, company_data, regulations,
          parsed_regulations, audit_results, compliance_score, suggested_fixes,
          produced_fixes, risk_level, estimated_fine, audit_report, result, propagated,
          twin, consulted,
          parser_log, callers,
          requests>>

(***************************************************************************)
(* Bounds of the model                                                     *)
(***************************************************************************)
\* longest violation list a backend answer carries
MaxViolations == 3
\* largest total_checks a backend answer carries
MaxChecks == 3

(***************************************************************************)
(* Python values                                                           *)
(***************************************************************************)
PyNone == [type |-> "NoneType", n |-> 0, s |-> ""]
PyInt(i) == [type |-> "int", n |-> i, s |-> ""]
PyFloat(i) == [type |-> "float", n |-> i, s |-> ""]
PyStr(t) == [type |-> "str", n |-> 0, s |-> t]
\* a list of k items (only its length is ever read)
PyList(k) == [type |-> "list", n |-> k, s |-> ""]

\* bool(v) for the values above
Truthy(v) ==
    CASE v.type = "NoneType" -> FALSE
      [] v.type = "int" -> v.n # 0
      [] v.type = "float" -> v.n # 0
      [] v.type = "str" -> v.s # ""
      [] v.type = "list" -> v.n # 0
      [] OTHER -> TRUE

Max(a, b) == IF a >= b THEN a ELSE b
Min(a, b) == IF a <= b THEN a ELSE b

(***************************************************************************)
(* Strings: characters, str.lower(), the "in" substring test               *)
(***************************************************************************)
Chars(t) ==
    CASE t = "" -> << >>
      [] t = "Global Mix" -> <<"G","l","o","b","a","l"," ","M","i","x">>
      [] t = "Global" -> <<"G","l","o","b","a","l">>
      [] t = "AWS USA" -> <<"A","W","S"," ","U","S","A">>
      [] t = "EU" -> <<"E","U">>
      [] t = "US" -> <<"U","S">>
      [] t = "global" -> <<"g","l","o","b","a","l">>
      [] t = "usa" -> <<"u","s","a">>
      [] t = "data" -> <<"d","a","t","a">>
      [] t = "collection" -> <<"c","o","l","l","e","c","t","i","o","n">>
      [] t = "ai" -> <<"a","i">>
      [] t = "model" -> <<"m","o","d","e","l">>
      [] t = "consent" -> <<"c","o","n","s","e","n","t">>
      [] t = "opt-out" -> <<"o","p","t","-","o","u","t">>
      [] t = "Data minimization - collect only necessary data" ->
           <<"D","a","t","a"," ","m","i","n","i","m","i","z","a","t","i","o","n"," ","-"," ",
             "c","o","l","l","e","c","t"," ","o","n","l","y"," ",
             "n","e","c","e","s","s","a","r","y"," ","d","a","t","a">>
      [] t = "Adequate protection for international data transfers" ->
           <<"A","d","e","q","u","a","t","e"," ","p","r","o","t","e","c","t","i","o","n"," ",
             "f","o","r"," ","i","n","t","e","r","n","a","t","i","o","n","a","l"," ",
             "d","a","t","a"," ","t","r","a","n","s","f","e","r","s">>
      [] t = "Compliance required for companies with 50k+ California consumers" ->
           <<"C","o","m","p","l","i","a","n","c","e"," ","r","e","q","u","i","r","e","d"," ",
             "f","o","r"," ","c","o","m","p","a","n","i","e","s"," ","w","i","t","h"," ",
             "5","0","k","+"," ","C","a","l","i","f","o","r","n","i","a"," ",
             "c","o","n","s","u","m","e","r","s">>
      [] t = "Transparency for AI systems" ->
           <<"T","r","a","n","s","p","a","r","e","n","c","y"," ","f","o","r"," ",
             "A","I"," ","s","y","s","t","e","m","s">>
      [] t = "AI model" -> <<"A","I"," ","m","o","d","e","l">>
      [] t = "AI model documentation" ->
           <<"A","I"," ","m","o","d","e","l"," ","d","o","c","u","m","e","n","t","a","t","i","o","n">>
      [] t = "AI model training data" ->
           <<"A","I"," ","m","o","d","e","l"," ","t","r","a","i","n","i","n","g"," ","d","a","t","a">>
      [] t = "Requirement text" ->
           <<"R","e","q","u","i","r","e","m","e","n","t"," ","t","e","x","t">>

UpperToLower ==
    [c \in {"A","B","C","D","E","F","G","H","I","J","K","L","M",
            "N","O","P","Q","R","S","T","U","V","W","X","Y","Z"} |->
        CASE c = "A" -> "a" [] c = "B" -> "b" [] c = "C" -> "c" [] c = "D" -> "d"
          [] c = "E" -> "e" [] c = "F" -> "f" [] c = "G" -> "g" [] c = "H" -> "h"
          [] c = "I" -> "i" [] c = "J" -> "j" [] c = "K" -> "k" [] c = "L" -> "l"
          [] c = "M" -> "m" [] c = "N" -> "n" [] c = "O" -> "o" [] c = "P" -> "p"
          [] c = "Q" -> "q" [] c = "R" -> "r" [] c = "S" -> "s" [] c = "T" -> "t"
          [] c = "U" -> "u" [] c = "V" -> "v" [] c = "W" -> "w" [] c = "X" -> "x"
          [] c = "Y" -> "y" [] c = "Z" -> "z"]

\* str.lower() on a character sequence
Lower(cs) ==
    [i \in 1..Len(cs) |-> IF cs[i] \in DOMAIN UpperToLower THEN UpperToLower[cs[i]] ELSE cs[i]]

\* needle in hay (Python substring test)
Contains(hay, needle) ==
    \E i \in 0..(Len(hay) - Len(needle)) :
        \A j \in 1..Len(needle) : hay[i + j] = needle[j]

\* d.get(k, dflt) on a dict
Get(d, k, dflt) == IF k \in DOMAIN d THEN d[k] ELSE dflt

(***************************************************************************)
(* The generation backend: model.generate_content_async(prompt)            *)
(* A configured model answers each kind of prompt with a scripted          *)
(* response: the call raises, or it returns a text made of an optional     *)
(* opening fence ("```json" or a bare "```"), a body that is valid JSON    *)
(* (payload) or not, and an optional closing fence "```".                  *)
(***************************************************************************)
Response(raises, open, close, valid, payload) ==
    [raises |-> raises, open |-> open, close |-> close, valid |-> valid, payload |-> payload]

\* text = response.text.strip(); drop a leading "```json", drop a trailing "```"
StripFences(r) ==
    [r EXCEPT !.open = IF @ = "json" THEN "none" ELSE @, !.close = FALSE]

\* json.loads(text.strip()) succeeds iff nothing but a valid JSON body is left
JsonLoadsOk(r) == r.open = "none" /\ ~r.close /\ r.valid

\* the call and the parse of its answer complete without an exception
BackendJsonOk(r) == ~r.raises /\ JsonLoadsOk(StripFences(r))

NoResponse == Response(TRUE, "none", FALSE, FALSE, [kind |-> "none"])
NoModel == [configured |-> FALSE, parse |-> NoResponse, audit |-> NoResponse, fix |-> NoResponse]

(***************************************************************************)
(* RegulationParser                                                        *)
(* A regulation is [regulation_name, key_requirements (their number),      *)
(* applicable_systems (their number), max_fine_percentage (in 1/1000)].    *)
(***************************************************************************)
Regulation(name, reqs, systems, fine) ==
    [regulation_name |-> name, key_requirements |-> reqs,
     applicable_systems |-> systems, max_fine_percentage |-> fine]

\* faulty variant: the default regulation carries no penalty
_get_default_regulation_without_penalty(regulation_name) ==
    Regulation(regulation_name, 0, 0, 0)

_get_default_regulation(regulation_name) == Regulation(regulation_name, 0, 0, 40)

_parse_with_fallback(regulation_name) ==
    CASE regulation_name = "GDPR" -> Regulation("GDPR", 3, 3, 40)
      [] regulation_name = "CCPA" -> Regulation("CCPA", 3, 2, 25)
      [] regulation_name = "AI_ACT" -> Regulation("AI_ACT", 3, 2, 60)
      [] OTHER -> _get_default_regulation(regulation_name)

_parse_with_gemini(m, regulation_name) ==
    IF BackendJsonOk(m.parse)
    THEN m.parse.payload
    ELSE _parse_with_fallback(regulation_name)

parse_regulation_from_text(m, regulation_name) ==
    IF m.configured
    THEN _parse_with_gemini(m, regulation_name)
    ELSE _parse_with_fallback(regulation_name)

\* the regulation a readable file data/regulations/<name>.json holds
FileRegulation(name) == Regulation(name, 5, 4, 40)

\* faulty variant: a regulation file is preferred to the cache
ResolveRegulation_file_first(m, files, cache, reg_name) ==
    IF files[reg_name] = "valid" THEN FileRegulation(reg_name)
    ELSE IF reg_name \in DOMAIN cache THEN cache[reg_name]
    ELSE parse_regulation_from_text(m, reg_name)

\* one iteration of the loop of parse_regulations: the value for reg_name
ResolveRegulation(m, files, cache, reg_name) ==
    IF reg_name \in DOMAIN cache THEN cache[reg_name]
    ELSE IF files[reg_name] = "valid" THEN FileRegulation(reg_name)
    ELSE parse_regulation_from_text(m, reg_name)

\* faulty variant: the regulations are returned but never stored in the cache
RECURSIVE ParseLoop_without_caching(_, _, _, _, _, _)
ParseLoop_without_caching(m, files, names, i, cache, regs) ==
    IF i > Len(names) THEN [regulations |-> regs, cache |-> cache]
    ELSE LET v == ResolveRegulation(m, files, cache, names[i])
         IN ParseLoop_without_caching(m, files, names, i + 1, cache,
                                      (names[i] :> v) @@ regs)

\* parse_regulations: [regulations, cache] after the names from position i on
RECURSIVE ParseLoop(_, _, _, _, _, _)
ParseLoop(m, files, names, i, cache, regs) ==
    IF i > Len(names) THEN [regulations |-> regs, cache |-> cache]
    ELSE LET v == ResolveRegulation(m, files, cache, names[i])
         IN ParseLoop(m, files, names, i + 1,
                      (names[i] :> v) @@ cache, (names[i] :> v) @@ regs)

parse_regulations(m, files, cache, regulation_names) ==
    ParseLoop(m, files, regulation_names, 1, cache, << >>)

\* a source consulted for a key: the cache, a regulation file, the backend or the
\* built-in table for a regulation name; the backend for an audit or a fix prompt
Consult(source, key) == [source |-> source, key |-> key]

\* faulty variant: a failed backend call is repeated once before the table is used
ParseConsults_retrying(m, reg_name) ==
    IF ~m.configured THEN << Consult("table", reg_name) >>
    ELSE IF BackendJsonOk(m.parse) THEN << Consult("backend", reg_name) >>
    ELSE << Consult("backend", reg_name), Consult("backend", reg_name),
            Consult("table", reg_name) >>

\* the sources parse_regulation_from_text goes through for one name
ParseConsults(m, reg_name) ==
    IF ~m.configured THEN << Consult("table", reg_name) >>
    ELSE IF BackendJsonOk(m.parse) THEN << Consult("backend", reg_name) >>
    ELSE << Consult("backend", reg_name), Consult("table", reg_name) >>

\* the sources one iteration of the loop of parse_regulations goes through: the
\* cache; on a miss the file; when no file could be loaded the parse of the text
SourcesConsulted(m, files, cache, reg_name) ==
    IF reg_name \in DOMAIN cache THEN << Consult("cache", reg_name) >>
    ELSE IF files[reg_name] = "valid"
    THEN << Consult("cache", reg_name), Consult("file", reg_name) >>
    ELSE << Consult("cache", reg_name), Consult("file", reg_name) >>
            \o ParseConsults(m, reg_name)

\* the sources consulted by parse_regulations from position i on
RECURSIVE ConsultLoop(_, _, _, _, _, _)
ConsultLoop(m, files, names, i, cache, log) ==
    IF i > Len(names) THEN log
    ELSE LET v == ResolveRegulation(m, files, cache, names[i])
         IN ConsultLoop(m, files, names, i + 1, (names[i] :> v) @@ cache,
                        log \o SourcesConsulted(m, files, cache, names[i]))

(***************************************************************************)
(* SystemAuditor                                                           *)
(* A violation is a dict [id, regulation, requirement, severity,           *)
(* system_affected]; description and evidence are texts nothing reads.     *)
(***************************************************************************)
Violation(id, regulation, requirement, severity, system) ==
    [id |-> id, regulation |-> regulation, requirement |-> requirement,
     severity |-> severity, system_affected |-> system]

\* a function result or the exception it raised
Returned(v) == [raised |-> FALSE, error |-> "", value |-> v]
Raised(e) == [raised |-> TRUE, error |-> e, value |-> << >>]

\* more than this many data categories violates data minimization
DataMinimizationThreshold == 10
\* more than this many users makes CCPA apply
CcpaUserThreshold == 50000
\* checks added to the violation count by the rule-based audit
RuleCheckPadding == 5

\* faulty variant: the storage location is searched without being lower-cased
_check_gdpr_compliance_case_sensitive(cd) ==
    LET data_collected == Get(cd, "data_collected", PyList(0))
        location == Get(cd, "data_storage_location", PyStr(""))
    IN  IF data_collected.type # "list"
        THEN Raised("object of type 'NoneType' has no len()")
        ELSE IF location.type # "str"
        THEN Raised("'NoneType' object has no attribute 'lower'")
        ELSE LET storage == Chars(location.s)
                 minimization ==
                     IF data_collected.n > DataMinimizationThreshold
                     THEN << Violation("gdpr_data_minimization", "GDPR",
                                "Data minimization - collect only necessary data",
                                PyStr("medium"), "data_collection") >>
                     ELSE << >>
                 transfer ==
                     IF Contains(storage, Chars("global")) \/ Contains(storage, Chars("usa"))
                     THEN << Violation("gdpr_international_transfer", "GDPR",
                                "Adequate protection for international data transfers",
                                PyStr("high"), "data_storage") >>
                     ELSE << >>
             IN  Returned(minimization \o transfer)

_check_gdpr_compliance(cd) ==
    LET data_collected == Get(cd, "data_collected", PyList(0))
        location == Get(cd, "data_storage_location", PyStr(""))
    IN  IF data_collected.type # "list"
        THEN Raised("object of type 'NoneType' has no len()")
        ELSE IF location.type # "str"
        THEN Raised("'NoneType' object has no attribute 'lower'")
        ELSE LET storage == Lower(Chars(location.s))
                 minimization ==
                     IF data_collected.n > DataMinimizationThreshold
                     THEN << Violation("gdpr_data_minimization", "GDPR",
                                "Data minimization - collect only necessary data",
                                PyStr("medium"), "data_collection") >>
                     ELSE << >>
                 transfer ==
                     IF Contains(storage, Chars("global")) \/ Contains(storage, Chars("usa"))
                     THEN << Violation("gdpr_international_transfer", "GDPR",
                                "Adequate protection for international data transfers",
                                PyStr("high"), "data_storage") >>
                     ELSE << >>
             IN  Returned(minimization \o transfer)

\* faulty variant: the CCPA violation is reported as critical
_check_ccpa_compliance_critical(cd) ==
    LET user_count == Get(cd, "user_count", 0)
    IN  Returned(IF user_count > CcpaUserThreshold
                 THEN << Violation("ccpa_threshold", "CCPA",
                            "Compliance required for companies with 50k+ California consumers",
                            PyStr("critical"), "general") >>
                 ELSE << >>)

_check_ccpa_compliance(cd) ==
    LET user_count == Get(cd, "user_count", 0)
    IN  Returned(IF user_count > CcpaUserThreshold
                 THEN << Violation("ccpa_threshold", "CCPA",
                            "Compliance required for companies with 50k+ California consumers",
                            PyStr("high"), "general") >>
                 ELSE << >>)

_check_ai_act_compliance(cd) ==
    LET ai_models == Get(cd, "ai_models_used", PyList(0))
    IN  Returned(IF Truthy(ai_models)
                 THEN << Violation("aia_transparency", "AI_ACT",
                            "Transparency for AI systems",
                            PyStr("medium"), "ai_models") >>
                 ELSE << >>)

\* faulty variant: the checks of a regulation run whether or not it was requested
CheckAlways(name, regs, check) == check

\* the checks of one regulation, run only when its name is among the names given
CheckIfRequested(name, regs, check) ==
    IF name \in regs THEN check ELSE Returned(<< >>)

\* faulty variant: the padding of the score's default (10) is used for total_checks
_audit_with_rules_padding_ten(cd, regs) ==
    LET gdpr == CheckIfRequested("GDPR", regs, _check_gdpr_compliance(cd))
        ccpa == CheckIfRequested("CCPA", regs, _check_ccpa_compliance(cd))
        aia == CheckIfRequested("AI_ACT", regs, _check_ai_act_compliance(cd))
        violations == gdpr.value \o ccpa.value \o aia.value
    IN  IF gdpr.raised THEN gdpr
        ELSE IF ccpa.raised THEN ccpa
        ELSE IF aia.raised THEN aia
        ELSE Returned([total_checks |-> PyInt(Len(violations) + 10),
                       passed_checks |-> PyInt(Max(0, RuleCheckPadding - Len(violations))),
                       violations |-> violations,
                       summary |-> PyStr("Found violations"),
                       recommendations |-> 3])

_audit_with_rules(cd, regs) ==
    LET gdpr == CheckIfRequested("GDPR", regs, _check_gdpr_compliance(cd))
        ccpa == CheckIfRequested("CCPA", regs, _check_ccpa_compliance(cd))
        aia == CheckIfRequested("AI_ACT", regs, _check_ai_act_compliance(cd))
        violations == gdpr.value \o ccpa.value \o aia.value
    IN  IF gdpr.raised THEN gdpr
        ELSE IF ccpa.raised THEN ccpa
        ELSE IF aia.raised THEN aia
        ELSE Returned([total_checks |-> PyInt(Len(violations) + RuleCheckPadding),
                       passed_checks |-> PyInt(Max(0, RuleCheckPadding - Len(violations))),
                       violations |-> violations,
                       summary |-> PyStr("Found violations"),
                       recommendations |-> 3])

_get_default_audit_results ==
    [total_checks |-> PyInt(0), passed_checks |-> PyInt(0), violations |-> << >>,
     summary |-> PyStr("Audit could not be completed"), recommendations |-> 1]

\* a missing required field is filled in: violations with [], the others with ""
FillMissing(d, field) ==
    IF field \in DOMAIN d THEN d
    ELSE (field :> (IF field = "violations" THEN << >> ELSE PyStr(""))) @@ d

\* json is [kind, d]: kind "object" carries the dict d
_validate_audit_results(json) ==
    IF json.kind # "object" THEN _get_default_audit_results
    ELSE FillMissing(FillMissing(FillMissing(FillMissing(json.d,
             "total_checks"), "passed_checks"), "violations"), "summary")

\* faulty variant: a failed backend audit gives the default results instead of
\* the rule-based audit
_audit_with_gemini_without_rules(m, cd, regs) ==
    IF BackendJsonOk(m.audit)
    THEN Returned(_validate_audit_results(m.audit.payload))
    ELSE Returned(_get_default_audit_results)

_audit_with_gemini(m, cd, regs) ==
    IF BackendJsonOk(m.audit)
    THEN Returned(_validate_audit_results(m.audit.payload))
    ELSE _audit_with_rules(cd, regs)

\* faulty variant: an audit that could not be completed is reported as a rule-based
\* audit that found nothing
audit_systems_clean_on_failure(m, cd, regs) ==
    LET r == IF m.configured THEN _audit_with_gemini(m, cd, regs)
             ELSE _audit_with_rules(cd, regs)
    IN  IF r.raised
        THEN [total_checks |-> PyInt(RuleCheckPadding),
              passed_checks |-> PyInt(RuleCheckPadding), violations |-> << >>,
              summary |-> PyStr("Found violations"), recommendations |-> 3]
        ELSE r.value

audit_systems(m, cd, regs) ==
    LET r == IF m.configured THEN _audit_with_gemini(m, cd, regs)
             ELSE _audit_with_rules(cd, regs)
    IN  IF r.raised THEN _get_default_audit_results ELSE r.value

\* the backend is asked for the audit exactly when a model is configured
AuditConsults(m) == IF m.configured THEN << Consult("backend", "audit") >> ELSE << >>

(***************************************************************************)
(* JSON values a backend answer may carry: an object (dict d), an array    *)
(* (items) or anything else                                                *)
(***************************************************************************)
JsonObject(d) == [kind |-> "object", d |-> d, items |-> << >>]
JsonArray(items) == [kind |-> "array", d |-> << >>, items |-> items]
JsonOther == [kind |-> "other", d |-> << >>, items |-> << >>]

(***************************************************************************)
(* ComplianceMonitor: score                                                *)
(* The score is the rational num/den.                                      *)
(***************************************************************************)
\* faulty variant: the weights of high and medium are exchanged
severity_weights_swapped(severity) ==
    CASE severity = PyStr("critical") -> 5
      [] severity = PyStr("high") -> 2
      [] severity = PyStr("medium") -> 3
      [] severity = PyStr("low") -> 1
      [] OTHER -> 1

severity_weights(severity) ==
    CASE severity = PyStr("critical") -> 5
      [] severity = PyStr("high") -> 3
      [] severity = PyStr("medium") -> 2
      [] severity = PyStr("low") -> 1
      [] OTHER -> 1

\* the loop of _calculate_compliance_score: weighted_score -= (10 * weight) / total_checks,
\* on the numerator of weighted_score over the denominator total_checks
RECURSIVE ScoreLoop(_, _, _)
ScoreLoop(violations, i, num) ==
    IF i > Len(violations) THEN num
    ELSE ScoreLoop(violations, i + 1,
                   num - 10 * severity_weights(Get(violations[i], "severity", PyStr("medium"))))

\* faulty variant: the score is capped at 100 but not floored at 0
ClampUpperOnly(num, den) == [num |-> Min(100 * den, num), den |-> den]

\* float(max(0.0, min(100.0, weighted_score))) on num/den
Clamp(num, den) == [num |-> Max(0, Min(100 * den, num)), den |-> den]

_calculate_compliance_score(ar) ==
    LET violations == Get(ar, "violations", << >>)
        total_checks == Get(ar, "total_checks", PyInt(Len(violations) + 10))
    IN  IF total_checks.type \in {"int", "float"} /\ total_checks.n = 0
        THEN Returned([num |-> 100, den |-> 1])
        ELSE IF total_checks.type \notin {"int", "float"}
        THEN IF Len(violations) = 0
             THEN Returned([num |-> 100, den |-> 1])
             ELSE Raised("unsupported operand type(s) for /: 'int' and 'str'")
        ELSE Returned(Clamp(ScoreLoop(violations, 1, 100 * total_checks.n), total_checks.n))

\* round(x, k) of the non-negative rational num/den to a whole number of units,
\* ties to even
RoundHalfEven(num, den) ==
    LET q == num \div den
        r == num % den
    IN  IF 2 * r > den THEN q + 1
        ELSE IF 2 * r < den THEN q
        ELSE IF q % 2 = 0 THEN q ELSE q + 1

(***************************************************************************)
(* ComplianceMonitor: risk                                                 *)
(***************************************************************************)
\* faulty variant: an unknown severity counts as medium
severity_points_unknown_as_medium(severity) ==
    CASE severity = PyStr("critical") -> 10
      [] severity = PyStr("high") -> 6
      [] severity = PyStr("medium") -> 3
      [] severity = PyStr("low") -> 1
      [] OTHER -> 3

\* faulty variant: the weights of the score are used as risk points
severity_points_as_weights(severity) ==
    CASE severity = PyStr("critical") -> 5
      [] severity = PyStr("high") -> 3
      [] severity = PyStr("medium") -> 2
      [] severity = PyStr("low") -> 1
      [] OTHER -> 0

severity_points(severity) ==
    CASE severity = PyStr("critical") -> 10
      [] severity = PyStr("high") -> 6
      [] severity = PyStr("medium") -> 3
      [] severity = PyStr("low") -> 1
      [] OTHER -> 0

RECURSIVE RiskLoop(_, _, _)
RiskLoop(violations, i, risk_score) ==
    IF i > Len(violations) THEN risk_score
    ELSE RiskLoop(violations, i + 1,
                  risk_score + severity_points(Get(violations[i], "severity", PyStr("medium"))))

\* risk_score at or above which the risk is critical, high, medium
CriticalRiskScore == 20
HighRiskScore == 10
MediumRiskScore == 5

\* faulty variant: the thresholds are compared with > instead of >=
RiskTierStrict(risk_score) ==
    IF risk_score > CriticalRiskScore THEN [risk_level |-> "critical", fine_percentage |-> 6]
    ELSE IF risk_score > HighRiskScore THEN [risk_level |-> "high", fine_percentage |-> 4]
    ELSE IF risk_score > MediumRiskScore THEN [risk_level |-> "medium", fine_percentage |-> 2]
    ELSE [risk_level |-> "low", fine_percentage |-> 1]

\* [risk_level, fine_percentage (in percent)] for a risk score
RiskTier(risk_score) ==
    IF risk_score >= CriticalRiskScore THEN [risk_level |-> "critical", fine_percentage |-> 6]
    ELSE IF risk_score >= HighRiskScore THEN [risk_level |-> "high", fine_percentage |-> 4]
    ELSE IF risk_score >= MediumRiskScore THEN [risk_level |-> "medium", fine_percentage |-> 2]
    ELSE [risk_level |-> "low", fine_percentage |-> 1]

\* faulty variant: a fine of 0 instead of None when the revenue is unknown or zero
EstimatedFineZero(revenue, fine_percentage) ==
    IF ~Truthy(revenue) THEN Returned(PyFloat(0))
    ELSE IF revenue.type \notin {"int", "float"}
    THEN Raised("can't multiply sequence by non-int of type 'float'")
    ELSE Returned(PyFloat(RoundHalfEven(revenue.n * fine_percentage, 100)))

\* estimated_fine = revenue * fine_percentage if revenue else None, then
\* round(estimated_fine, 2) if estimated_fine else None.  revenue is in cents and
\* fine_percentage in percent: the product is revenue.n * fine_percentage / 100 cents
EstimatedFine(revenue, fine_percentage) ==
    IF ~Truthy(revenue) THEN Returned(PyNone)
    ELSE IF revenue.type \notin {"int", "float"}
    THEN Raised("can't multiply sequence by non-int of type 'float'")
    ELSE Returned(PyFloat(RoundHalfEven(revenue.n * fine_percentage, 100)))

\* faulty variant: no early return for an empty violation list
_assess_risk_without_early_return(ar, revenue) ==
    LET violations == Get(ar, "violations", << >>)
        tier == RiskTier(RiskLoop(violations, 1, 0))
        fine == EstimatedFine(revenue, tier.fine_percentage)
    IN  IF fine.raised THEN fine
        ELSE Returned([risk_level |-> tier.risk_level, estimated_fine |-> fine.value])

\* faulty variant: the risk level is derived from the compliance score (>= 90 low, >= 70
\* medium, >= 50 high, else critical) instead of the severity points
_assess_risk_by_score(ar, revenue) ==
    LET violations == Get(ar, "violations", << >>)
        score == _calculate_compliance_score(ar).value
        tier == IF score.num >= 90 * score.den THEN RiskTier(0)
                ELSE IF score.num >= 70 * score.den THEN RiskTier(MediumRiskScore)
                ELSE IF score.num >= 50 * score.den THEN RiskTier(HighRiskScore)
                ELSE RiskTier(CriticalRiskScore)
        fine == EstimatedFine(revenue, tier.fine_percentage)
    IN  IF Len(violations) = 0
        THEN Returned([risk_level |-> "low", estimated_fine |-> PyFloat(0)])
        ELSE IF fine.raised THEN fine
        ELSE Returned([risk_level |-> tier.risk_level, estimated_fine |-> fine.value])

_assess_risk(ar, revenue) ==
    LET violations == Get(ar, "violations", << >>)
        tier == RiskTier(RiskLoop(violations, 1, 0))
        fine == EstimatedFine(revenue, tier.fine_percentage)
    IN  IF Len(violations) = 0
        THEN Returned([risk_level |-> "low", estimated_fine |-> PyFloat(0)])
        ELSE IF fine.raised THEN fine
        ELSE Returned([risk_level |-> tier.risk_level, estimated_fine |-> fine.value])

(***************************************************************************)
(* ComplianceMonitor: report                                               *)
(***************************************************************************)
CountSeverity(violations, severity) ==
    Cardinality({i \in 1..Len(violations) :
                    Get(violations[i], "severity", PyNone) = PyStr(severity)})

\* the report text, as the values it embeds; the per-violation lines call
\* violation.get('severity', 'medium').upper()
_generate_audit_report(cd, ar, score, risk) ==
    LET violations == Get(ar, "violations", << >>)
    IN  IF \E i \in 1..Len(violations) :
               Get(violations[i], "severity", PyStr("medium")).type # "str"
        THEN Raised("'NoneType' object has no attribute 'upper'")
        ELSE Returned([kind |-> "report",
                       company |-> Get(cd, "company_name", "Unknown Company"),
                       compliance_score |-> score,
                       risk_level |-> risk,
                       total_checks |-> Get(ar, "total_checks", PyStr("N/A")),
                       violations_found |-> Len(violations),
                       critical_issues |-> CountSeverity(violations, "critical"),
                       high_issues |-> CountSeverity(violations, "high"),
                       summary |-> Get(ar, "summary",
                                       PyStr("No specific recommendations provided.")),
                       error |-> ""])

(***************************************************************************)
(* FixSuggester                                                            *)
(* A fix is a dict [violation_id, title, priority, estimated_time_hours,   *)
(* cost_estimate_usd]; the other template texts are carried by the title.  *)
(***************************************************************************)
fix_templates(template_key) ==
    CASE template_key = "data_minimization" ->
           [title |-> "Implement Data Minimization Policy",
            estimated_time_hours |-> 40, cost_estimate_usd |-> 8000]
      [] template_key = "ai_transparency" ->
           [title |-> "Create AI Model Documentation",
            estimated_time_hours |-> 30, cost_estimate_usd |-> 6000]
      [] OTHER ->
           [title |-> "Deploy Consent Management Platform",
            estimated_time_hours |-> 60, cost_estimate_usd |-> 15000]

\* faulty variant: the branch of the AI keywords selects the consent template
TemplateKey_ai_as_consent(requirement_text) ==
    LET requirement == Lower(Chars(requirement_text))
    IN  IF Contains(requirement, Chars("data")) \/ Contains(requirement, Chars("collection"))
        THEN "data_minimization"
        ELSE "user_consent"

\* the template chosen for a requirement text
TemplateKey(requirement_text) ==
    LET requirement == Lower(Chars(requirement_text))
    IN  IF Contains(requirement, Chars("data")) \/ Contains(requirement, Chars("collection"))
        THEN "data_minimization"
        ELSE IF Contains(requirement, Chars("ai")) \/ Contains(requirement, Chars("model"))
        THEN "ai_transparency"
        ELSE "user_consent"

\* company sizes above / below which the template estimates are scaled
LargeCompanySize == 100000
SmallCompanySize == 1000
\* violations[:5]
MaxTemplateFixes == 5

\* faulty variant: the two thresholds themselves are scaled as well
SizeMultipliersInclusive(company_size) ==
    IF company_size >= LargeCompanySize THEN [cost |-> 20, time |-> 15]
    ELSE IF company_size <= SmallCompanySize THEN [cost |-> 5, time |-> 8]
    ELSE [cost |-> 10, time |-> 10]

\* [cost, time] multipliers, in tenths
SizeMultipliers(company_size) ==
    IF company_size > LargeCompanySize THEN [cost |-> 20, time |-> 15]
    ELSE IF company_size < SmallCompanySize THEN [cost |-> 5, time |-> 8]
    ELSE [cost |-> 10, time |-> 10]

TemplateFix(violation, company_size) ==
    LET template == fix_templates(TemplateKey(Get(violation, "requirement", "")))
        mult == SizeMultipliers(company_size)
    IN  [violation_id |-> Get(violation, "id", "unknown"),
         title |-> template.title,
         priority |-> Get(violation, "severity", PyStr("medium")),
         estimated_time_hours |-> (template.estimated_time_hours * mult.time) \div 10,
         cost_estimate_usd |-> (template.cost_estimate_usd * mult.cost) \div 10]

\* faulty variant: every violation is converted, not only the first five
_suggest_fixes_with_templates_unlimited(violations, cd) ==
    LET company_size == Get(cd, "user_count", 0)
    IN  [i \in 1..Len(violations) |-> TemplateFix(violations[i], company_size)]

_suggest_fixes_with_templates(violations, cd) ==
    LET company_size == Get(cd, "user_count", 0)
        n == Min(Len(violations), MaxTemplateFixes)
    IN  [i \in 1..n |-> TemplateFix(violations[i], company_size)]

_suggest_fixes_with_gemini(m, violations, cd) ==
    IF ~BackendJsonOk(m.fix)
    THEN _suggest_fixes_with_templates(violations, cd)
    ELSE LET fixes == m.fix.payload
         IN  IF fixes.kind = "object" /\ "fixes" \in DOMAIN fixes.d THEN fixes.d["fixes"]
             ELSE IF fixes.kind = "array" THEN fixes.items
             ELSE _suggest_fixes_with_templates(violations, cd)

get_priority(fix) ==
    LET priority == Get(fix, "priority", PyStr("low"))
    IN  CASE priority = PyStr("critical") -> 0
          [] priority = PyStr("high") -> 1
          [] priority = PyStr("medium") -> 2
          [] OTHER -> 3

\* sorted(fixes, key=get_priority): a stable sort on the four ranks
WithRank(fixes, rank) ==
    LET keep(fix) == get_priority(fix) = rank IN SelectSeq(fixes, keep)

\* faulty variant: ascending ranks, but fixes of equal rank come out in reverse order
_prioritize_fixes_unstable(fixes) ==
    LET descending == WithRank(fixes, 3) \o WithRank(fixes, 2) \o WithRank(fixes, 1)
                         \o WithRank(fixes, 0)
    IN  [i \in 1..Len(descending) |-> descending[Len(descending) + 1 - i]]

_prioritize_fixes(fixes) ==
    WithRank(fixes, 0) \o WithRank(fixes, 1) \o WithRank(fixes, 2) \o WithRank(fixes, 3)

\* the local `fixes` of suggest_fixes: what the backend or the templates produced
\* (nothing when there are no violations)
ProducedFixes(m, ar, cd) ==
    LET violations == Get(ar, "violations", << >>)
    IN  IF Len(violations) = 0 THEN << >>
        ELSE IF m.configured THEN _suggest_fixes_with_gemini(m, violations, cd)
        ELSE _suggest_fixes_with_templates(violations, cd)

\* an item of the backend's fix list that is no JSON object (a text, a number):
\* fix.get raises AttributeError in get_priority
JsonText == [json |-> "string"]
PrioritizeRaises(produced) == \E i \in 1..Len(produced) : "json" \in DOMAIN produced[i]

\* faulty variant: the fixes are asked for even when there is no violation
suggest_fixes_without_early_return(m, ar, cd) ==
    LET violations == Get(ar, "violations", << >>)
        produced == IF m.configured THEN _suggest_fixes_with_gemini(m, violations, cd)
                    ELSE _suggest_fixes_with_templates(violations, cd)
    IN  IF PrioritizeRaises(produced) THEN << >>
        ELSE _prioritize_fixes(produced)

\* an exception inside suggest_fixes is caught there and [] is returned
suggest_fixes(m, ar, cd) ==
    LET violations == Get(ar, "violations", << >>)
        produced == IF m.configured THEN _suggest_fixes_with_gemini(m, violations, cd)
                    ELSE _suggest_fixes_with_templates(violations, cd)
    IN  IF Len(violations) = 0 THEN << >>
        ELSE IF PrioritizeRaises(produced) THEN << >>
        ELSE _prioritize_fixes(produced)

\* the backend is asked for fixes when there are violations and a model is configured
FixConsults(m, ar) ==
    IF Len(Get(ar, "violations", << >>)) = 0 THEN << >>
    ELSE IF m.configured THEN << Consult("backend", "fix") >>
    ELSE << >>

(***************************************************************************)
(* ComplianceMonitor.analyze_compliance                                    *)
(***************************************************************************)
\* faulty variant: the result lists only the violations the templates converted
NormalResult_converted_violations(score, ar, fixes, report, risk, fine, regs) ==
    LET violations == Get(ar, "violations", << >>)
    IN  [compliance_score |-> PyFloat(RoundHalfEven(100 * score.num, score.den)),
         violations |-> SubSeq(violations, 1, Min(Len(violations), 5)),
         suggested_fixes |-> fixes,
         audit_report |-> report,
         risk_level |-> risk,
         estimated_fine |-> fine,
         regulations |-> regs,
         analysis_date |-> "now"]

\* the dict returned on the normal path; the score is round(score, 2), in 1/100
NormalResult(score, ar, fixes, report, risk, fine, regs) ==
    [compliance_score |-> PyFloat(RoundHalfEven(100 * score.num, score.den)),
     violations |-> Get(ar, "violations", << >>),
     suggested_fixes |-> fixes,
     audit_report |-> report,
     risk_level |-> risk,
     estimated_fine |-> fine,
     regulations |-> regs,
     analysis_date |-> "now"]

\* the dict returned by the except branch
ErrorResult(e) ==
    [compliance_score |-> PyInt(0),
     violations |-> << >>,
     suggested_fixes |-> << >>,
     audit_report |-> [kind |-> "failed", error |-> e],
     risk_level |-> "unknown",
     estimated_fine |-> PyNone,
     error |-> e]

\* faulty variant: the try block ends before the report is generated
TryCoversUntilRisk(step) == step \in {"parse", "audit", "score", "fixes", "risk"}

\* the steps inside the try block of analyze_compliance
TryCovers(step) == step \in {"parse", "audit", "score", "fixes", "risk", "report", "return"}

\* faulty variant: the exception is recorded and the call goes on with its next step
Fail_keeps_running(e) ==
    /\ pc' = (CASE pc = "parse" -> "audit" [] pc = "audit" -> "score"
               [] pc = "score" -> "fixes" [] pc = "fixes" -> "risk"
               [] pc = "risk" -> "report" [] pc = "report" -> "return"
               [] OTHER -> "done")
    /\ result' = ErrorResult(e)
    /\ propagated' = FALSE

\* an exception raised in a step: inside the try block it ends the call with the
\* error response, outside it would leave the call
Fail(e) ==
    /\ pc' = "done"
    /\ IF TryCovers(pc)
       THEN result' = ErrorResult(e) /\ propagated' = FALSE
       ELSE result' = result /\ propagated' = TRUE

NoScore == [num |-> 0, den |-> 1]
NoResult == [kind |-> "none"]

\* a caller invokes analyze_compliance(company_data, regulations)
Step1Parse ==
    /\ pc = "parse"
    /\ IF regulations.type # "list"
       THEN /\ Fail("object of type 'NoneType' has no len()")
            /\ UNCHANGED <<parsed_regulations, regulation_cache, consulted, parser_log>>
       ELSE LET r == parse_regulations(model, regulation_files, regulation_cache,
                                       regulations.items)
            IN  /\ parsed_regulations' = r.regulations
                /\ regulation_cache' = r.cache
                /\ consulted' = consulted \o ConsultLoop(model, regulation_files,
                                     regulations.items, 1, regulation_cache, << >>)
                /\ parser_log' = parser_log \o ConsultLoop(model, regulation_files,
                                     regulations.items, 1, regulation_cache, << >>)
                /\ pc' = "audit"
                /\ UNCHANGED <<result, propagated>>
    /\ UNCHANGED <<model, regulation_files, company_data, regulations, audit_results,
                   compliance_score, suggested_fixes, risk_level, estimated_fine,
                   audit_report, twin, callers, requests, produced_fixes>>

Step2Audit ==
    /\ pc = "audit"
    /\ audit_results' = audit_systems(model, company_data, DOMAIN parsed_regulations)
    /\ consulted' = consulted \o AuditConsults(model)
    /\ pc' = "score"
    /\ UNCHANGED <<model, regulation_files, regulation_cache, company_data, regulations,
                   parsed_regulations, compliance_score, suggested_fixes, risk_level,
                   estimated_fine, audit_report, result, propagated, twin,
                   parser_log, callers, requests, produced_fixes>>

Step3Score ==
    /\ pc = "score"
    /\ LET r == _calculate_compliance_score(audit_results)
       IN  IF r.raised
           THEN Fail(r.error) /\ UNCHANGED compliance_score
           ELSE /\ compliance_score' = r.value
                /\ pc' = "fixes"
                /\ UNCHANGED <<result, propagated>>
    /\ UNCHANGED <<model, regulation_files, regulation_cache, company_data, regulations,
                   parsed_regulations, audit_results, suggested_fixes, risk_level,
                   estimated_fine, audit_report, twin,
                   parser_log, callers, consulted, requests, produced_fixes>>

Step4Fixes ==
    /\ pc = "fixes"
    /\ produced_fixes' = ProducedFixes(model, audit_results, company_data)
    /\ suggested_fixes' = suggest_fixes(model, audit_results, company_data)
    /\ consulted' = consulted \o FixConsults(model, audit_results)
    /\ pc' = "risk"
    /\ UNCHANGED <<model, regulation_files, regulation_cache, company_data, regulations,
                   parsed_regulations, audit_results, compliance_score, risk_level,
                   estimated_fine, audit_report, result, propagated, twin,
                   parser_log, callers, requests>>

Step5Risk ==
    /\ pc = "risk"
    /\ LET r == _assess_risk(audit_results, Get(company_data, "revenue", PyInt(0)))
       IN  IF r.raised
           THEN Fail(r.error) /\ UNCHANGED <<risk_level, estimated_fine>>
           ELSE /\ risk_level' = r.value.risk_level
                /\ estimated_fine' = r.value.estimated_fine
                /\ pc' = "report"
                /\ UNCHANGED <<result, propagated>>
    /\ UNCHANGED <<model, regulation_files, regulation_cache, company_data, regulations,
                   parsed_regulations, audit_results, compliance_score, suggested_fixes,
                   audit_report, twin, parser_log, callers, consulted, requests, produced_fixes>>

Step6Report ==
    /\ pc = "report"
    /\ LET r == _generate_audit_report(company_data, audit_results, compliance_score,
                                       risk_level)
       IN  IF r.raised
           THEN Fail(r.error) /\ UNCHANGED audit_report
           ELSE /\ audit_report' = r.value
                /\ pc' = "return"
                /\ UNCHANGED <<result, propagated>>
    /\ UNCHANGED <<model, regulation_files, regulation_cache, company_data, regulations,
                   parsed_regulations, audit_results, compliance_score, suggested_fixes,
                   risk_level, estimated_fine, twin,
                   parser_log, callers, consulted, requests, produced_fixes>>

Step7Return ==
    /\ pc = "return"
    /\ result' = NormalResult(compliance_score, audit_results, suggested_fixes,
                              audit_report, risk_level, estimated_fine, regulations.items)
    /\ pc' = "done"
    /\ UNCHANGED <<model, regulation_files, regulation_cache, company_data, regulations,
                   parsed_regulations, audit_results, compliance_score, suggested_fixes,
                   risk_level, estimated_fine, audit_report, propagated, twin,
                   parser_log, callers, consulted,
                   requests, produced_fixes>>

(***************************************************************************)
(* Inputs                                                                  *)
(***************************************************************************)
RevenueKey(revenue) == "revenue" :> revenue

Company(data_collected, location, ai_models, user_count) ==
    [company_name |-> "TestCo", data_collected |-> data_collected,
     data_storage_location |-> location, ai_models_used |-> ai_models,
     user_count |-> user_count]

\* company profiles: with and without a revenue key, revenue None, 0, 1000000 (in cents)
\* or a text; data_collected None or a list
Companies ==
    LET base == { Company(d, l, a, u) :
                    d \in {PyNone, PyList(10), PyList(11), PyList(12)},
                    l \in {PyStr("Global Mix"), PyStr("Global"), PyStr("EU"), PyStr("US"),
                           PyStr("AWS USA")},
                    a \in {PyList(0), PyList(1)},
                    u \in {500, 1000, 40000, 50000, 60000, 100000, 200000} }
    IN  base \cup { RevenueKey(r) @@ c :
                      c \in base,
                      r \in {PyNone, PyInt(0), PyInt(100000000), PyStr("1M")} }

\* the company of the end-to-end example: 12 data categories, storage "Global", no AI
\* models, 1000 users, revenue 1000000
Acme ==
    RevenueKey(PyInt(100000000)) @@ Company(PyList(12), PyStr("Global"), PyList(0), 1000)

\* the profiles used where the backend answers the audit: the revenue varies
\* (1234.56 and 1000000, in cents)
BackendCompanies ==
    LET c == Company(PyList(12), PyStr("Global Mix"), PyList(1), 1000)
    IN  {c} \cup { RevenueKey(r) @@ c :
                     r \in {PyNone, PyInt(0), PyFloat(123456), PyInt(100000000)} }

PyRegulations(names) == [type |-> "list", items |-> names]

RegulationLists ==
    { PyRegulations(names) :
        names \in { << >>, <<"GDPR">>, <<"CCPA">>, <<"AI_ACT">>, <<"GDPR", "CCPA">>,
                    <<"CCPA", "AI_ACT">>, <<"GDPR", "CCPA", "AI_ACT">>, <<"HIPAA">>,
                    <<"GDPR", "GDPR">> } }
    \cup { [type |-> "NoneType", items |-> << >>] }

RegulationNames == {"GDPR", "CCPA", "AI_ACT", "HIPAA"}

NoFiles == [n \in RegulationNames |-> "absent"]
FileStores ==
    { NoFiles, [NoFiles EXCEPT !["GDPR"] = "valid"], [NoFiles EXCEPT !["GDPR"] = "corrupt"] }

(***************************************************************************)
(* Scripted backends                                                       *)
(***************************************************************************)
BackendViolation(severity) ==
    Violation("viol", "GDPR", "Requirement text", severity, "data_collection")

BackendFix(id, priority) ==
    [violation_id |-> id, title |-> "Fix Title", priority |-> priority,
     estimated_time_hours |-> 24, cost_estimate_usd |-> 5000]

Raises == Response(TRUE, "none", FALSE, FALSE, JsonOther)
Fenced(payload) == Response(FALSE, "json", TRUE, TRUE, payload)
Plain(payload) == Response(FALSE, "none", FALSE, TRUE, payload)
BareFenced(payload) == Response(FALSE, "bare", TRUE, TRUE, payload)
NotJson == Response(FALSE, "none", FALSE, FALSE, JsonOther)

Backend(parse, audit, fix) ==
    [configured |-> TRUE, parse |-> parse, audit |-> audit, fix |-> fix]

\* violations and fixes told apart by their ids
FixIds == <<"v1", "v2", "v3", "v4", "v5", "v6", "v7", "v8", "v9">>

RequirementTexts ==
    <<"Requirement text", "AI model documentation", "AI model training data">>

BackendViolationWith(id, requirement, severity) ==
    Violation(id, "GDPR", requirement, severity, "data_collection")

\* every call of the backend raises
FailingModel == Backend(Raises, Raises, Raises)

ScriptedModels ==
    { \* a complete audit with two critical violations, fixes as an array
      Backend(Fenced(Regulation("GDPR", 1, 1, 60)),
              Fenced(JsonObject([total_checks |-> PyInt(10), passed_checks |-> PyInt(8),
                                 violations |-> << BackendViolation(PyStr("critical")),
                                                   BackendViolation(PyStr("critical")) >>,
                                 summary |-> PyStr("Overall audit summary")])),
              Plain(JsonArray(<< BackendFix("viol", PyStr("low")),
                                 BackendFix("viol", PyStr("critical")) >>))),
      \* an audit answer without total_checks, fixes in an object
      Backend(NotJson,
              Plain(JsonObject([violations |-> << BackendViolation(PyStr("high")) >>])),
              Fenced(JsonObject([fixes |-> << BackendFix("viol", PyStr("high")) >>]))),
      \* a violation whose severity is null, a fix answer that is no list
      Backend(Raises,
              Fenced(JsonObject([total_checks |-> PyInt(4), passed_checks |-> PyInt(3),
                                 violations |-> << BackendViolation(PyNone) >>,
                                 summary |-> PyStr("Overall audit summary")])),
              Plain(JsonOther)),
      \* answers inside a bare fence
      Backend(BareFenced(Regulation("GDPR", 1, 1, 60)),
              BareFenced(JsonObject([total_checks |-> PyInt(10), passed_checks |-> PyInt(10),
                                     violations |-> << >>, summary |-> PyStr("ok")])),
              BareFenced(JsonArray(<< >>))),
      \* an audit answer that is a JSON array
      Backend(Raises, Plain(JsonArray(<< >>)), Raises) }

BackendSeverities ==
    {PyStr("critical"), PyStr("high"), PyStr("medium"), PyStr("low"), PyStr("severe")}

\* the violation lists of up to MaxViolations violations
ViolationLists ==
    UNION { [1..n -> {BackendViolation(sev) : sev \in BackendSeverities}] :
              n \in 0..MaxViolations }

\* the audit answers: any violation list, total_checks 0..MaxChecks or missing
AuditAnswers ==
    { JsonObject([total_checks |-> PyInt(tc), passed_checks |-> PyInt(0),
                  violations |-> vs, summary |-> PyStr("Overall audit summary")]) :
        tc \in 0..MaxChecks, vs \in ViolationLists }
    \cup { JsonObject([passed_checks |-> PyInt(0), violations |-> vs,
                       summary |-> PyStr("Overall audit summary")]) :
             vs \in ViolationLists }

AuditingModels == { Backend(Raises, Fenced(a), Raises) : a \in AuditAnswers }

(***************************************************************************)
(* Backends for the fix suggester                                          *)
(***************************************************************************)
\* longest fix list a backend answer carries
MaxFixes == 3
\* violations beyond the first five in the longest audit answer
MaxExtraViolations == 2

FixPriorities ==
    {PyStr("critical"), PyStr("high"), PyStr("medium"), PyStr("low"), PyStr("urgent"), PyNone}

\* the fix lists of up to MaxFixes fixes, the i-th for violation FixIds[i]; and one
\* list with an item that is no object
FixLists ==
    { [i \in 1..Len(ps) |-> BackendFix(FixIds[i], ps[i])] :
        ps \in UNION { [1..n -> FixPriorities] : n \in 0..MaxFixes } }
    \cup { << BackendFix("v1", PyStr("high")), JsonText >> }

AuditAnswer(violations) ==
    JsonObject([total_checks |-> PyInt(10), passed_checks |-> PyInt(8),
                violations |-> violations, summary |-> PyStr("Overall audit summary")])

\* the backend answers the audit (no violation, or two) and the fixes (as an array, or
\* as an object with a fixes member)
FixAnsweringModels ==
    { Backend(Raises, Fenced(AuditAnswer(vs)), Plain(JsonArray(fs))) :
        vs \in { << >>,
                 << BackendViolationWith("v1", "Requirement text", PyStr("critical")),
                    BackendViolationWith("v2", "Requirement text", PyStr("low")) >> },
        fs \in FixLists }
    \cup { Backend(Raises,
                   Fenced(AuditAnswer(<< BackendViolationWith("v1", "Requirement text",
                                                              PyStr("high")) >>)),
                   Fenced(JsonObject([fixes |-> fs]))) :
             fs \in { f \in FixLists : Len(f) = 2 } }

\* violation i has id FixIds[i], severity sevs[i] and a requirement text that
\* depends on its position
IndexedViolations(sevs, offset) ==
    [i \in 1..Len(sevs) |->
        BackendViolationWith(FixIds[i], RequirementTexts[((i + offset) % 3) + 1], sevs[i])]

SeverityCycle == <<PyStr("low"), PyStr("critical"), PyStr("medium"), PyStr("high")>>

\* the violation lists the templates are applied to: every list of up to
\* MaxViolations violations, lists of 4 to 5 + MaxExtraViolations violations whose
\* severities cycle, and a list whose violation has neither id nor severity
TemplateViolationLists ==
    { IndexedViolations(sevs, offset) :
        sevs \in UNION { [1..n -> BackendSeverities] : n \in 0..MaxViolations },
        offset \in 0..2 }
    \cup { IndexedViolations([i \in 1..n |-> SeverityCycle[((i + k) % 4) + 1]], offset) :
             n \in 4..(MaxTemplateFixes + MaxExtraViolations), k \in 0..3, offset \in 0..2 }
    \cup { << [regulation |-> "GDPR", requirement |-> "Requirement text"] >> }

\* the backend answers the audit and fails on the fixes: the templates are used
TemplateFallbackModels ==
    { Backend(Raises, Fenced(AuditAnswer(vs)), fix) :
        vs \in TemplateViolationLists, fix \in {Raises, NotJson} }

\* company sizes around the two scaling thresholds, a profile without user_count and
\* one that violates nothing
FixCompanies ==
    LET sized(u) == RevenueKey(PyInt(100000000))
                       @@ Company(PyList(12), PyStr("Global Mix"), PyList(1), u)
    IN  { sized(u) : u \in {0, 500, 999, 1000, 1001, 99999, 100000, 100001, 200000} }
        \cup { [company_name |-> "TestCo", data_collected |-> PyList(12),
                data_storage_location |-> PyStr("Global Mix"),
                ai_models_used |-> PyList(1)],
               Company(PyList(10), PyStr("EU"), PyList(0), 1000) }

(***************************************************************************)
(* Specifications                                                          *)
(***************************************************************************)
TwinIdle == [state |-> "idle"]

\* the locals before the call has set them
InitLocals ==
    /\ regulation_cache = << >>
    /\ pc = "parse"
    /\ parsed_regulations = << >>
    /\ audit_results = << >>
    /\ compliance_score = NoScore
    /\ suggested_fixes = << >>
    /\ produced_fixes = << >>
    /\ risk_level = ""
    /\ estimated_fine = PyNone
    /\ audit_report = NoResult
    /\ result = NoResult
    /\ propagated = FALSE
    /\ twin = TwinIdle
    /\ consulted = << >>
    /\ parser_log = << >>
    /\ callers = << >>
    /\ requests = 1

\* analyze_compliance called on a freshly built system: without a backend or with a
\* failing one on every company profile, with a scripted backend on some
Init ==
    /\ InitLocals
    /\ \/ /\ model \in {NoModel, FailingModel}
          /\ regulation_files = NoFiles
          /\ company_data \in Companies
          /\ regulations \in RegulationLists
       \/ /\ model \in ScriptedModels \cup {NoModel}
          /\ regulation_files \in FileStores
          /\ company_data \in BackendCompanies
          /\ regulations \in RegulationLists

Next ==
    \/ Step1Parse
    \/ Step2Audit
    \/ Step3Score
    \/ Step4Fixes
    \/ Step5Risk
    \/ Step6Report
    \/ Step7Return

Spec == Init /\ [][Next]_vars

\* analyze_compliance called on a system whose backend answers the audit
InitBackend ==
    /\ InitLocals
    /\ model \in AuditingModels
    /\ regulation_files = NoFiles
    /\ company_data \in BackendCompanies
    /\ regulations = PyRegulations(<<"GDPR">>)

SpecBackend == InitBackend /\ [][Next]_vars

\* analyze_compliance called on a system whose fixes come from the backend, from the
\* templates after a failed backend call, or from the templates without a backend
InitFixes ==
    /\ InitLocals
    /\ model \in FixAnsweringModels \cup TemplateFallbackModels \cup {NoModel}
    /\ regulation_files = NoFiles
    /\ company_data \in FixCompanies
    /\ regulations = PyRegulations(<<"GDPR", "CCPA", "AI_ACT">>)

SpecFixes == InitFixes /\ [][Next]_vars

(***************************************************************************)
(* Several requests served by one system: the parser and its cache live as *)
(* long as the system, and regulation files may be written in between      *)
(***************************************************************************)
\* requests served by one system
MaxRequests == 2

\* no backend, a backend that fails, one whose parse answer is no JSON, and one that
\* answers the parse prompt
ParsingModels ==
    { NoModel, FailingModel, Backend(NotJson, Raises, Raises),
      Backend(Fenced(Regulation("GDPR", 1, 1, 60)), Raises, Raises) }

ParserRegulationLists ==
    { PyRegulations(names) :
        names \in { <<"GDPR">>, <<"GDPR", "HIPAA">>, <<"CCPA", "GDPR">>,
                    <<"GDPR", "GDPR">> } }

InitParser ==
    /\ InitLocals
    /\ model \in ParsingModels
    /\ regulation_files \in FileStores
    /\ company_data = Acme
    /\ regulations \in ParserRegulationLists

\* the next request reaches analyze_compliance of the same system
NextRequest ==
    /\ pc = "done"
    /\ requests < MaxRequests
    /\ requests' = requests + 1
    /\ regulations' \in ParserRegulationLists
    /\ pc' = "parse"
    /\ parsed_regulations' = << >>
    /\ audit_results' = << >>
    /\ compliance_score' = NoScore
    /\ suggested_fixes' = << >>
    /\ produced_fixes' = << >>
    /\ risk_level' = ""
    /\ estimated_fine' = PyNone
    /\ audit_report' = NoResult
    /\ result' = NoResult
    /\ consulted' = << >>
    /\ UNCHANGED <<model, regulation_files, regulation_cache, company_data, propagated,
                   twin, parser_log, callers>>

\* between two requests the GDPR regulation file is written, damaged or removed
FileChange ==
    /\ pc = "done"
    /\ requests < MaxRequests
    /\ \E status \in {"absent", "valid", "corrupt"} :
          /\ status # regulation_files["GDPR"]
          /\ regulation_files' = [regulation_files EXCEPT !["GDPR"] = status]
    /\ UNCHANGED <<model, regulation_cache, pc, company_data, regulations,
                   parsed_regulations, audit_results, compliance_score, suggested_fixes,
                   produced_fixes, risk_level, estimated_fine, audit_report, result,
                   propagated, twin, parser_log, callers, consulted, requests>>

NextParser ==
    \/ Next
    \/ NextRequest
    \/ FileChange

SpecParser == InitParser /\ [][NextParser]_vars

(***************************************************************************)
(* Two audit results side by side: steps 3 and 5 of analyze_compliance     *)
(* applied to audit results that carry the same severities (in a possibly  *)
(* different order) and different total_checks, for the same revenue       *)
(***************************************************************************)
Reverse(seq) == [i \in 1..Len(seq) |-> seq[Len(seq) + 1 - i]]

AuditOf(total_checks, violations) ==
    [total_checks |-> PyInt(total_checks), passed_checks |-> PyInt(0),
     violations |-> violations, summary |-> PyStr("Overall audit summary")]

TwinInputs ==
    { [state |-> "ready", a |-> AuditOf(tc[1], vs),
       b |-> AuditOf(tc[2], IF reversed THEN Reverse(vs) ELSE vs), revenue |-> r] :
        tc \in {t \in (0..MaxChecks) \X (0..MaxChecks) : t[1] # t[2]},
        vs \in ViolationLists, reversed \in BOOLEAN, r \in {PyNone, PyFloat(123456)} }

TwinAssess ==
    /\ twin.state = "ready"
    /\ twin' = [state |-> "done", a |-> twin.a, b |-> twin.b, revenue |-> twin.revenue,
                score_a |-> _calculate_compliance_score(twin.a),
                score_b |-> _calculate_compliance_score(twin.b),
                risk_a |-> _assess_risk(twin.a, twin.revenue),
                risk_b |-> _assess_risk(twin.b, twin.revenue)]
    /\ UNCHANGED <<model, regulation_files, regulation_cache, pc, company_data, regulations,
                   parsed_regulations, audit_results, compliance_score, suggested_fixes,
                   risk_level, estimated_fine, audit_report, result, propagated, consulted,
                   parser_log, callers,
                   requests, produced_fixes>>

InitTwin ==
    /\ model = NoModel
    /\ regulation_files = NoFiles
    /\ regulation_cache = << >>
    /\ pc = "idle"
    /\ company_data = Company(PyList(0), PyStr(""), PyList(0), 0)
    /\ regulations = PyRegulations(<< >>)
    /\ parsed_regulations = << >>
    /\ audit_results = << >>
    /\ compliance_score = NoScore
    /\ suggested_fixes = << >>
    /\ produced_fixes = << >>
    /\ risk_level = ""
    /\ estimated_fine = PyNone
    /\ audit_report = NoResult
    /\ result = NoResult
    /\ propagated = FALSE
    /\ twin \in TwinInputs
    /\ consulted = << >>
    /\ parser_log = << >>
    /\ callers = << >>
    /\ requests = 0

NextTwin == TwinAssess

SpecTwin == InitTwin /\ [][NextTwin]_vars

(***************************************************************************)
(* Overlapping parse_regulations calls on one parser                       *)
(* The requests of the API share app.state.system and so one               *)
(* RegulationParser.  A call runs on the event loop until it awaits the    *)
(* backend; while it waits another call runs.  A caller is                 *)
(* [names, i, phase, regulations]: the names it asked for, the position of *)
(* its loop, "loop" / "awaiting" / "returned", and its local regulations.  *)
(***************************************************************************)
\* calls in progress at the same time
MaxCallers == 2

CallerIds == 1..MaxCallers

CallerNames == { <<"GDPR">>, <<"GDPR", "HIPAA">>, <<"HIPAA", "GDPR">> }

\* what the backend may answer to one parse prompt: the call raises, the text is no
\* JSON, or it is one of two regulations; the answer may differ from call to call
ConcurrentAnswers ==
    { Raises, NotJson, Fenced(Regulation("GDPR", 1, 1, 60)),
      Fenced(Regulation("GDPR", 2, 1, 60)) }

Caller(names, i, phase, regs) ==
    [names |-> names, i |-> i, phase |-> phase, regulations |-> regs]

\* caller c runs its loop for the name at its position up to the next await or to
\* the end of the iteration: cache hit, file load, or the parse of the text, which
\* awaits the backend when a model is configured
CallerLoop(c) ==
    /\ callers[c].phase = "loop"
    /\ callers[c].i <= Len(callers[c].names)
    /\ LET me == callers[c]
           reg_name == me.names[me.i]
           keep(v) == [callers EXCEPT ![c] = Caller(me.names, me.i + 1, "loop",
                                                   (reg_name :> v) @@ me.regulations)]
       IN  IF reg_name \in DOMAIN regulation_cache
           THEN /\ callers' = keep(regulation_cache[reg_name])
                /\ UNCHANGED regulation_cache
           ELSE IF regulation_files[reg_name] = "valid"
           THEN /\ callers' = keep(FileRegulation(reg_name))
                /\ regulation_cache' = (reg_name :> FileRegulation(reg_name))
                                          @@ regulation_cache
           ELSE IF model.configured
           THEN /\ callers' = [callers EXCEPT ![c].phase = "awaiting"]
                /\ UNCHANGED regulation_cache
           ELSE /\ callers' = keep(_parse_with_fallback(reg_name))
                /\ regulation_cache' = (reg_name :> _parse_with_fallback(reg_name))
                                          @@ regulation_cache
    /\ UNCHANGED <<model, regulation_files, pc, company_data, regulations,
                   parsed_regulations, audit_results, compliance_score, suggested_fixes,
                   produced_fixes, risk_level, estimated_fine, audit_report, result,
                   propagated, twin, consulted, parser_log, requests>>

\* the backend answers the call caller c awaits: the parsed regulation is stored in
\* the cache and in the caller's regulations
BackendAnswers(c) ==
    /\ callers[c].phase = "awaiting"
    /\ \E answer \in ConcurrentAnswers :
          LET me == callers[c]
              reg_name == me.names[me.i]
              parsed == parse_regulation_from_text([model EXCEPT !.parse = answer],
                                                   reg_name)
          IN  /\ regulation_cache' = (reg_name :> parsed) @@ regulation_cache
              /\ callers' = [callers EXCEPT ![c] =
                                Caller(me.names, me.i + 1, "loop",
                                       (reg_name :> parsed) @@ me.regulations)]
    /\ UNCHANGED <<model, regulation_files, pc, company_data, regulations,
                   parsed_regulations, audit_results, compliance_score, suggested_fixes,
                   produced_fixes, risk_level, estimated_fine, audit_report, result,
                   propagated, twin, consulted, parser_log, requests>>

\* the loop of caller c is over: parse_regulations returns its regulations
CallerReturns(c) ==
    /\ callers[c].phase = "loop"
    /\ callers[c].i > Len(callers[c].names)
    /\ callers' = [callers EXCEPT ![c].phase = "returned"]
    /\ UNCHANGED <<model, regulation_files, regulation_cache, pc, company_data,
                   regulations, parsed_regulations, audit_results, compliance_score,
                   suggested_fixes, produced_fixes, risk_level, estimated_fine,
                   audit_report, result, propagated, twin, consulted, parser_log,
                   requests>>

InitConcurrent ==
    /\ model \in {NoModel, FailingModel}
    /\ regulation_files \in FileStores
    /\ regulation_cache = << >>
    /\ pc = "idle"
    /\ company_data = Acme
    /\ regulations = PyRegulations(<< >>)
    /\ parsed_regulations = << >>
    /\ audit_results = << >>
    /\ compliance_score = NoScore
    /\ suggested_fixes = << >>
    /\ produced_fixes = << >>
    /\ risk_level = ""
    /\ estimated_fine = PyNone
    /\ audit_report = NoResult
    /\ result = NoResult
    /\ propagated = FALSE
    /\ twin = TwinIdle
    /\ consulted = << >>
    /\ parser_log = << >>
    /\ callers \in [CallerIds -> { Caller(names, 1, "loop", << >>) : names \in CallerNames }]
    /\ requests = 0

NextConcurrent ==
    \E c \in CallerIds :
        \/ CallerLoop(c)
        \/ BackendAnswers(c)
        \/ CallerReturns(c)

SpecConcurrent == InitConcurrent /\ [][NextConcurrent]_vars

(***************************************************************************)
(* Properties                                                              *)
(***************************************************************************)
Degraded == pc = "done" /\ "error" \in DOMAIN result
Completed == pc = "done" /\ "error" \notin DOMAIN result

\* the number of violations of a list that carry the given severity
NumberOf(violations, severity) ==
    Cardinality({i \in 1..Len(violations) : violations[i].severity = PyStr(severity)})

\* the number of violations whose severity is none of critical, high, medium, low
NumberOfOthers(violations) ==
    Len(violations) - NumberOf(violations, "critical") - NumberOf(violations, "high")
        - NumberOf(violations, "medium") - NumberOf(violations, "low")

\* the first exception a step of the call in progress has met, "" if none
StepError ==
    IF regulations.type # "list" THEN "object of type 'NoneType' has no len()"
    ELSE IF pc # "done" THEN ""
    ELSE IF _calculate_compliance_score(audit_results).raised
    THEN _calculate_compliance_score(audit_results).error
    ELSE IF _assess_risk(audit_results, Get(company_data, "revenue", PyInt(0))).raised
    THEN _assess_risk(audit_results, Get(company_data, "revenue", PyInt(0))).error
    ELSE IF _generate_audit_report(company_data, audit_results, compliance_score,
                                   risk_level).raised
    THEN _generate_audit_report(company_data, audit_results, compliance_score,
                                risk_level).error
    ELSE ""

\* C1: analyze_compliance is total. No exception leaves the call, a call that has
\* ended has returned a result, and when a step has raised the call returns
\* compliance_score 0, no violations, no fixes, risk_level "unknown",
\* estimated_fine None and an audit_report that carries the error message.
C1_Total ==
    /\ ~propagated
    /\ pc \in {"parse", "audit", "score", "fixes", "risk", "report", "return", "done"}
    /\ pc = "done" => result # NoResult
    /\ (pc = "done" /\ StepError # "") =>
          /\ result.compliance_score.n = 0
          /\ result.violations = << >>
          /\ result.suggested_fixes = << >>
          /\ result.risk_level = "unknown"
          /\ result.estimated_fine = PyNone
          /\ result.audit_report.kind = "failed"
          /\ result.audit_report.error = StepError
    /\ (pc = "done" /\ StepError = "") => Completed

\* the report step has raised after the audit, the score, the fixes and the risk
\* had been computed, and the call returned the error response
C1_Witness ==
    /\ Degraded
    /\ risk_level # ""
    /\ Len(audit_results.violations) > 0
    /\ result.audit_report.error = "'NoneType' object has no attribute 'upper'"

AnalysisResultFields ==
    {"compliance_score", "violations", "suggested_fixes", "audit_report", "risk_level",
     "estimated_fine", "regulations", "analysis_date"}

\* C2: every returned result, normal or degraded, carries all the fields of an
\* AnalysisResult (among them the echoed regulation list and the analysis
\* timestamp) and a compliance_score that is a float.
C2_StructurallyValid ==
    pc = "done" =>
        /\ AnalysisResultFields \subseteq DOMAIN result
        /\ result.compliance_score.type = "float"

\* C3: the compliance score is within [0, 100]: the value _calculate_compliance_score
\* returns (the rational num/den) and the compliance_score of every returned result
\* (in 1/100).
C3_ScoreInRange ==
    /\ pc = "fixes" =>
          /\ compliance_score.den > 0
          /\ 0 <= compliance_score.num
          /\ compliance_score.num <= 100 * compliance_score.den
    /\ pc = "done" =>
          /\ 0 <= result.compliance_score.n
          /\ result.compliance_score.n <= 10000

\* three critical violations over one check: the raw sum is 100 - 150, the score 0
C3_Witness ==
    /\ Completed
    /\ audit_results.total_checks = PyInt(1)
    /\ NumberOf(audit_results.violations, "critical") = 3
    /\ result.compliance_score = PyFloat(0)

\* the sum over the violations of the weights critical 5, high 3, medium 2, low 1
\* (1 for any other severity)
WeightSum(violations) ==
    5 * NumberOf(violations, "critical") + 3 * NumberOf(violations, "high")
      + 2 * NumberOf(violations, "medium") + NumberOf(violations, "low")
      + NumberOfOthers(violations)

\* C4: for total_checks >= 1 the score is clamp(100 - sum 10*w/total_checks, 0, 100),
\* for total_checks = 0 it is exactly 100 whatever the violations are.
C4_ScoreFormula ==
    pc = "fixes" /\ audit_results.total_checks.type = "int" =>
        LET tc == audit_results.total_checks.n
            raw == 100 * tc - 10 * WeightSum(audit_results.violations)
            expected == IF raw < 0 THEN 0 ELSE IF raw > 100 * tc THEN 100 * tc ELSE raw
        IN  /\ tc >= 1 => compliance_score.num * tc = expected * compliance_score.den
            /\ tc = 0 => compliance_score.num = 100 * compliance_score.den

\* one high and one medium violation over three checks: the score is 100 - 50/3
C4_Witness ==
    /\ pc = "fixes"
    /\ audit_results.total_checks = PyInt(3)
    /\ Len(audit_results.violations) = 2
    /\ compliance_score.num = 300 - 10 * WeightSum(audit_results.violations)
    /\ NumberOf(audit_results.violations, "high") = 1
    /\ NumberOf(audit_results.violations, "medium") = 1

\* the severity points critical 10, high 6, medium 3, low 1 summed over the violations
PointSum(violations) ==
    10 * NumberOf(violations, "critical") + 6 * NumberOf(violations, "high")
       + 3 * NumberOf(violations, "medium") + NumberOf(violations, "low")

\* the tier and the fine percentage (in percent) claimed for a sum of severity points
ClaimedTiers(points) ==
    { t \in { [level |-> "critical", percent |-> 6, low |-> 20, high |-> 1000],
              [level |-> "high", percent |-> 4, low |-> 10, high |-> 19],
              [level |-> "medium", percent |-> 2, low |-> 5, high |-> 9],
              [level |-> "low", percent |-> 1, low |-> 0, high |-> 4] } :
        t.low <= points /\ points <= t.high }

PositiveRevenue(cd) ==
    /\ "revenue" \in DOMAIN cd
    /\ cd.revenue.type \in {"int", "float"}
    /\ cd.revenue.n > 0

\* C5 as stated: for a non-empty violation list the risk level is the tier of the
\* severity-point sum, and for a positive revenue the estimated fine is exactly the
\* revenue times the percentage of that tier.
C5_ExactFine ==
    pc = "report" /\ Len(audit_results.violations) > 0 =>
        \E t \in ClaimedTiers(PointSum(audit_results.violations)) :
            /\ risk_level = t.level
            /\ PositiveRevenue(company_data) =>
                  /\ estimated_fine.type = "float"
                  /\ 100 * estimated_fine.n = company_data.revenue.n * t.percent

\* C5 as amended: for a non-empty violation list the risk level is the tier of the
\* severity-point sum, and for a positive revenue the estimated fine is the revenue
\* times the percentage of that tier, rounded to two decimals (to the cent).
C5_RoundedFine ==
    pc = "report" /\ Len(audit_results.violations) > 0 =>
        \E t \in ClaimedTiers(PointSum(audit_results.violations)) :
            /\ risk_level = t.level
            /\ PositiveRevenue(company_data) =>
                  /\ estimated_fine.type = "float"
                  /\ 100 * estimated_fine.n - company_data.revenue.n * t.percent <= 50
                  /\ company_data.revenue.n * t.percent - 100 * estimated_fine.n <= 50

\* two critical violations (20 points exactly) and a revenue of 1000000: critical,
\* fine 60000
C5_Witness ==
    /\ pc = "report"
    /\ Len(audit_results.violations) = 2
    /\ NumberOf(audit_results.violations, "critical") = 2
    /\ risk_level = "critical"
    /\ PositiveRevenue(company_data)
    /\ company_data.revenue = PyInt(100000000)
    /\ estimated_fine = PyFloat(6000000)

RevenueUnknownOrZero(cd) ==
    \/ "revenue" \notin DOMAIN cd
    \/ cd.revenue = PyNone
    \/ cd.revenue.type \in {"int", "float"} /\ cd.revenue.n = 0

\* C6 as stated: in every result estimated_fine is None when the revenue is absent,
\* None or zero, whatever the violation list is.
C6_NullFine ==
    pc = "done" /\ RevenueUnknownOrZero(company_data) => result.estimated_fine = PyNone

\* C6 as amended: when the revenue is absent, None or zero, estimated_fine is None
\* in every result that reports violations and in every degraded result, and it is
\* the number 0.0 in a normal result without violations.
C6_NullFineUnlessNoViolations ==
    pc = "done" /\ RevenueUnknownOrZero(company_data) =>
        IF Completed /\ Len(result.violations) = 0
        THEN result.estimated_fine = PyFloat(0)
        ELSE result.estimated_fine = PyNone

\* a normal result with violations for a company whose revenue is 0
C6_Witness ==
    /\ Completed
    /\ "revenue" \in DOMAIN company_data
    /\ company_data.revenue = PyInt(0)
    /\ Len(result.violations) > 0
    /\ result.estimated_fine = PyNone

\* C7: with an empty violation list _assess_risk returns ("low", 0.0) for any revenue.
C7_NoViolationsLowZero ==
    pc = "report" /\ Len(audit_results.violations) = 0 =>
        risk_level = "low" /\ estimated_fine = PyFloat(0)

\* no violations and a revenue of 1000000
C7_Witness ==
    /\ pc = "report"
    /\ Len(audit_results.violations) = 0
    /\ PositiveRevenue(company_data)
    /\ risk_level = "low"
    /\ estimated_fine = PyFloat(0)

\* C8: two audit results with the same severities and different total_checks get
\* the same risk level and the same fine, however their scores differ.
C8_RiskIgnoresScore ==
    twin.state = "done" => twin.risk_a = twin.risk_b

\* the same violations over 1 and over 3 checks: different scores, one risk
C8_Witness ==
    /\ twin.state = "done"
    /\ Len(twin.a.violations) = 3
    /\ twin.a.total_checks = PyInt(1)
    /\ twin.b.total_checks = PyInt(3)
    /\ twin.score_a.value.num * twin.score_b.value.den
          # twin.score_b.value.num * twin.score_a.value.den
    /\ twin.revenue = PyFloat(123456)
    /\ twin.risk_a.value.risk_level = "high"

\* the audit result comes from the rule-based checks: no backend is configured, or
\* the backend call or the parse of its answer failed
RuleBasedAudit == ~model.configured \/ ~BackendJsonOk(model.audit)

\* the regulation names given to analyze_compliance
Requested == {regulations.items[i] : i \in 1..Len(regulations.items)}

\* the company profile has a list of data categories and a storage location text
WellFormed(cd) ==
    cd.data_collected.type = "list" /\ cd.data_storage_location.type = "str"

Reported(id) ==
    \E i \in 1..Len(audit_results.violations) : audit_results.violations[i].id = id

ReportedAs(id, severity) ==
    \A i \in 1..Len(audit_results.violations) :
        audit_results.violations[i].id = id =>
            audit_results.violations[i].severity = PyStr(severity)

\* the text holds the (lower-case) word, letters compared without regard to case
MentionsIgnoringCase(text, word) ==
    \E i \in 0..(Len(text) - Len(word)) :
        \A j \in 1..Len(word) :
            \/ text[i + j] = word[j]
            \/ /\ text[i + j] \in DOMAIN UpperToLower
               /\ UpperToLower[text[i + j]] = word[j]

\* C9: rule-based audit with GDPR requested: gdpr_data_minimization (medium) is
\* reported iff more than 10 data categories are collected, and
\* gdpr_international_transfer (high) iff the storage location mentions "global" or
\* "usa" in any letter case; the two checks are independent.
C9_GdprRules ==
    (pc = "score" /\ RuleBasedAudit /\ "GDPR" \in Requested /\ WellFormed(company_data)) =>
        /\ Reported("gdpr_data_minimization") <=> company_data.data_collected.n > 10
        /\ ReportedAs("gdpr_data_minimization", "medium")
        /\ Reported("gdpr_international_transfer") <=>
              \/ MentionsIgnoringCase(Chars(company_data.data_storage_location.s),
                                      <<"g", "l", "o", "b", "a", "l">>)
              \/ MentionsIgnoringCase(Chars(company_data.data_storage_location.s),
                                      <<"u", "s", "a">>)
        /\ ReportedAs("gdpr_international_transfer", "high")

\* 12 data categories stored in "Global Mix": both violations are reported
C9_Witness ==
    /\ pc = "score"
    /\ RuleBasedAudit
    /\ regulations.items = <<"GDPR">>
    /\ company_data.data_collected = PyList(12)
    /\ company_data.data_storage_location = PyStr("Global Mix")
    /\ Reported("gdpr_data_minimization")
    /\ Reported("gdpr_international_transfer")

\* C10: rule-based audit: ccpa_threshold (high) is reported iff CCPA is requested and
\* user_count > 50000, aia_transparency (medium) iff AI_ACT is requested and
\* ai_models_used is not empty, and no violation of a regulation that was not
\* requested is reported.
C10_RequestedRulesOnly ==
    (pc = "score" /\ RuleBasedAudit) =>
        /\ ("GDPR" \in Requested => WellFormed(company_data)) =>
              /\ Reported("ccpa_threshold") <=>
                    ("CCPA" \in Requested /\ company_data.user_count > 50000)
              /\ Reported("aia_transparency") <=>
                    ("AI_ACT" \in Requested /\ company_data.ai_models_used.n > 0)
        /\ ReportedAs("ccpa_threshold", "high")
        /\ ReportedAs("aia_transparency", "medium")
        /\ \A i \in 1..Len(audit_results.violations) :
               audit_results.violations[i].regulation \in Requested

\* CCPA alone requested for 60000 users, 12 data categories, storage "Global Mix" and
\* an AI model: only ccpa_threshold is reported
C10_Witness ==
    /\ pc = "score"
    /\ RuleBasedAudit
    /\ regulations.items = <<"CCPA">>
    /\ company_data.user_count = 60000
    /\ company_data.data_collected = PyList(12)
    /\ company_data.data_storage_location = PyStr("Global Mix")
    /\ company_data.ai_models_used = PyList(1)
    /\ Len(audit_results.violations) = 1
    /\ Reported("ccpa_threshold")

(***************************************************************************)
(* End to end without a backend                                            *)
(***************************************************************************)
AcmeAgainstGdpr ==
    /\ ~model.configured
    /\ company_data = Acme
    /\ regulations = PyRegulations(<<"GDPR">>)

ResultReports(id) ==
    \E i \in 1..Len(result.violations) : result.violations[i].id = id

\* the example's result: a score below 100, both GDPR violations, risk medium and a
\* fine of 20000.0
AcmeResult ==
    /\ Completed
    /\ result.compliance_score.type = "float"
    /\ result.compliance_score.n < 10000
    /\ ResultReports("gdpr_data_minimization")
    /\ ResultReports("gdpr_international_transfer")
    /\ PointSum(result.violations) = 9
    /\ result.risk_level = "medium"
    /\ result.estimated_fine = PyFloat(2000000)

\* risk level and fine of the result are those the thresholds give for the
\* severity-point sum of the returned violations: the tier's level, and the tier's
\* percentage of a positive revenue (to the cent), no fine when the revenue is
\* unknown or zero
ThresholdsOnReturnedViolations ==
    \E t \in ClaimedTiers(PointSum(result.violations)) :
        /\ result.risk_level = t.level
        /\ PositiveRevenue(company_data) =>
              /\ result.estimated_fine.type = "float"
              /\ 100 * result.estimated_fine.n - company_data.revenue.n * t.percent <= 50
              /\ company_data.revenue.n * t.percent - 100 * result.estimated_fine.n <= 50
        /\ RevenueUnknownOrZero(company_data) => result.estimated_fine = PyNone

\* C11 as stated: without a backend the example gives the stated result, and the
\* risk level and the fine of every completed analysis are the threshold function of
\* the severity-point sum of the returned violations.
C11_ThresholdsAlways ==
    /\ pc = "done" /\ AcmeAgainstGdpr => AcmeResult
    /\ Completed /\ ~model.configured => ThresholdsOnReturnedViolations

\* C11 as amended: without a backend the example gives the stated result, and the
\* risk level and the fine of every completed analysis that returns at least one
\* violation are the threshold function of the severity-point sum of the returned
\* violations; a completed analysis that returns no violation has risk low and fine 0.0.
C11_EndToEnd ==
    /\ pc = "done" /\ AcmeAgainstGdpr => AcmeResult
    /\ Completed /\ ~model.configured =>
          IF Len(result.violations) > 0
          THEN ThresholdsOnReturnedViolations
          ELSE result.risk_level = "low" /\ result.estimated_fine = PyFloat(0)

\* the example has been analysed: two violations, 9 points, medium, 20000.0
C11_Witness ==
    /\ pc = "done"
    /\ AcmeAgainstGdpr
    /\ Len(result.violations) = 2
    /\ result.risk_level = "medium"
    /\ result.estimated_fine = PyFloat(2000000)

(***************************************************************************)
(* SystemAuditor with a failing backend                                    *)
(***************************************************************************)
\* the backend call of the audit raises, or its text is not valid JSON once the
\* fences are stripped
BackendAuditFails ==
    model.configured /\ (model.audit.raises \/ ~JsonLoadsOk(StripFences(model.audit)))

\* what the auditor returns for the same company and regulations when no backend is
\* configured
AuditWithoutBackend == audit_systems(NoModel, company_data, DOMAIN parsed_regulations)

\* C12: with a backend whose audit call raises or whose answer is not valid JSON,
\* audit_systems returns the violations, total_checks and passed_checks of the
\* rule-based audit of the same company and regulations (for a well-formed profile:
\* the violation count plus 5, and 5 minus the count but at least 0), and the call
\* goes on to the score: no exception has come out of the audit.
C12_FallsBackToRules ==
    pc = "score" /\ BackendAuditFails =>
        /\ ~propagated
        /\ audit_results.violations = AuditWithoutBackend.violations
        /\ audit_results.total_checks = AuditWithoutBackend.total_checks
        /\ audit_results.passed_checks = AuditWithoutBackend.passed_checks
        /\ (WellFormed(company_data) \/ "GDPR" \notin Requested) =>
              /\ audit_results.total_checks = PyInt(Len(audit_results.violations) + 5)
              /\ audit_results.passed_checks
                    = PyInt(Max(0, 5 - Len(audit_results.violations)))
              /\ Reported("ccpa_threshold")
                    <=> "CCPA" \in Requested /\ company_data.user_count > 50000

\* every backend call raises and the rule-based audit has found the three
\* violations of a large company that stores its data globally
C12_Witness ==
    /\ pc = "score"
    /\ model = FailingModel
    /\ consulted[Len(consulted)] = Consult("backend", "audit")
    /\ Len(audit_results.violations) = 3
    /\ audit_results.total_checks = PyInt(8)
    /\ audit_results.passed_checks = PyInt(2)
    /\ Reported("ccpa_threshold")
    /\ Reported("gdpr_international_transfer")

(***************************************************************************)
(* A backend audit answer without a required field                         *)
(***************************************************************************)
\* the backend has answered the audit with a JSON object that lacks one of
\* total_checks, passed_checks, violations, summary
AuditAnswerLacksField ==
    /\ model.configured
    /\ \E i \in 1..Len(consulted) : consulted[i] = Consult("backend", "audit")
    /\ BackendJsonOk(model.audit)
    /\ model.audit.payload.kind = "object"
    /\ {"total_checks", "passed_checks", "violations", "summary"}
          \ DOMAIN model.audit.payload.d # {}

\* C13: when the backend's audit answer is a JSON object without a required field,
\* the error is recovered locally: the call returns a normal result, its risk_level
\* is not "unknown" and it carries no error text.
C13_RecoveredLocally ==
    pc = "done" /\ AuditAnswerLacksField =>
        /\ Completed
        /\ result.risk_level # "unknown"
        /\ result.audit_report.kind # "failed"

(***************************************************************************)
(* FixSuggester                                                            *)
(***************************************************************************)
\* suggest_fixes has returned and analyze_compliance has not gone further
FixesSuggested == pc = "risk"

AuditedViolations == Get(audit_results, "violations", << >>)

BackendAskedFor(key) ==
    \E i \in 1..Len(consulted) : consulted[i] = Consult("backend", key)

\* C14: when the audit result has no violations suggest_fixes returns the empty list,
\* with or without a backend, and the backend has not been asked for fixes.
C14_NoViolationsNoFixes ==
    FixesSuggested /\ Len(AuditedViolations) = 0 =>
        /\ suggested_fixes = << >>
        /\ ~BackendAskedFor("fix")

\* a backend that would answer with fixes, an audit without violations: no fixes and
\* no fix prompt, though the backend was asked for the audit
C14_Witness ==
    /\ FixesSuggested
    /\ model.configured
    /\ BackendJsonOk(model.fix)
    /\ Len(model.fix.payload.items) > 0
    /\ Len(AuditedViolations) = 0
    /\ BackendAskedFor("audit")
    /\ ~BackendAskedFor("fix")
    /\ suggested_fixes = << >>

\* the fixes of this call come from the templates: no backend, or a backend whose
\* fix call failed or whose answer was not JSON
TemplatesUsed ==
    /\ FixesSuggested
    /\ Len(AuditedViolations) > 0
    /\ ~model.configured \/ ~BackendJsonOk(model.fix)

\* the violations the templates convert: the first five
Converted == 1..Min(Len(AuditedViolations), 5)

RequirementOf(i) == Chars(Get(AuditedViolations[i], "requirement", ""))

\* C15 as stated: in the template fallback every violation whose requirement text
\* contains "AI model" gets the AI-transparency fix, titled "Create AI Model
\* Documentation", whatever else the text contains.
C15_AiModelIsAiTransparency ==
    TemplatesUsed =>
        /\ Len(produced_fixes) = Cardinality(Converted)
        /\ \A i \in Converted :
              Contains(RequirementOf(i), Chars("AI model")) =>
                  produced_fixes[i].title = "Create AI Model Documentation"

\* C15 as amended: in the template fallback every violation whose requirement text
\* contains "AI model" and, in whatever letter case, neither "data" nor "collection"
\* gets the AI-transparency fix, titled "Create AI Model Documentation".
C15_AiModelWithoutDataIsAiTransparency ==
    TemplatesUsed =>
        /\ Len(produced_fixes) = Cardinality(Converted)
        /\ \A i \in Converted :
              /\ Contains(RequirementOf(i), Chars("AI model"))
              /\ ~MentionsIgnoringCase(RequirementOf(i), Chars("data"))
              /\ ~MentionsIgnoringCase(RequirementOf(i), Chars("collection"))
              => produced_fixes[i].title = "Create AI Model Documentation"

\* the backend failed on the fixes and the violation "AI model documentation" got
\* the AI-transparency fix
C15_Witness ==
    /\ TemplatesUsed
    /\ model.configured
    /\ \E i \in Converted :
          /\ AuditedViolations[i].requirement = "AI model documentation"
          /\ produced_fixes[i].title = "Create AI Model Documentation"
          /\ produced_fixes[i].violation_id = AuditedViolations[i].id

\* the base values of the template a fix was made from, found by its title
BaseOf(fix) ==
    CHOOSE t \in {fix_templates(k) : k \in {"data_minimization", "user_consent",
                                            "ai_transparency"}} : t.title = fix.title

\* cost and time of every template fix are the given tenths of the template's base
Scaled(cost_tenths, time_tenths) ==
    \A i \in 1..Len(produced_fixes) :
        /\ 10 * produced_fixes[i].cost_estimate_usd
              = cost_tenths * BaseOf(produced_fixes[i]).cost_estimate_usd
        /\ 10 * produced_fixes[i].estimated_time_hours
              = time_tenths * BaseOf(produced_fixes[i]).estimated_time_hours

\* C16: template fixes are scaled by company size: above 100000 users the cost is
\* 2 times and the time 1.5 times the template's base value, below 1000 users the cost
\* is 0.5 times and the time 0.8 times the base, and for every other user_count, 1000
\* and 100000 included, cost and time are the base values.
C16_ScaledBySize ==
    TemplatesUsed /\ "user_count" \in DOMAIN company_data =>
        /\ Len(produced_fixes) > 0
        /\ company_data.user_count > 100000 => Scaled(20, 15)
        /\ company_data.user_count < 1000 => Scaled(5, 8)
        /\ company_data.user_count >= 1000 /\ company_data.user_count <= 100000
              => Scaled(10, 10)

\* 100001 users: a consent-platform fix at 30000 USD and 90 hours
C16_Witness ==
    /\ TemplatesUsed
    /\ "user_count" \in DOMAIN company_data
    /\ company_data.user_count = 100001
    /\ \E i \in 1..Len(produced_fixes) :
          /\ produced_fixes[i].title = "Deploy Consent Management Platform"
          /\ produced_fixes[i].cost_estimate_usd = 30000
          /\ produced_fixes[i].estimated_time_hours = 90

\* the rank of a fix: critical 0, high 1, medium 2, low 3 (3 as well for a priority
\* that is none of these, as get_priority has it)
RankOf(fix) ==
    LET priority == Get(fix, "priority", PyStr("low"))
    IN  IF priority = PyStr("critical") THEN 0
        ELSE IF priority = PyStr("high") THEN 1
        ELSE IF priority = PyStr("medium") THEN 2
        ELSE 3

\* every produced fix is an object; their ids tell them apart
FixObjects(produced) ==
    /\ \A i \in 1..Len(produced) : "violation_id" \in DOMAIN produced[i]
    /\ \A i, j \in 1..Len(produced) :
          produced[i].violation_id = produced[j].violation_id => i = j

\* the place of a returned fix in the list that was produced
PlaceProduced(fix) ==
    CHOOSE k \in 1..Len(produced_fixes) : produced_fixes[k].violation_id = fix.violation_id

\* C17: the list suggest_fixes returns, from the backend or from the templates, is the
\* produced list reordered: the same fixes (a permutation), ranks ascending, and fixes
\* of equal rank in the order in which they were produced.
C17_StableSort ==
    FixesSuggested /\ Len(AuditedViolations) > 0 /\ FixObjects(produced_fixes) =>
        /\ Len(suggested_fixes) = Len(produced_fixes)
        /\ \A k \in 1..Len(produced_fixes) :
              \E i \in 1..Len(suggested_fixes) : suggested_fixes[i] = produced_fixes[k]
        /\ \A i, j \in 1..Len(suggested_fixes) :
              i < j =>
                  /\ RankOf(suggested_fixes[i]) <= RankOf(suggested_fixes[j])
                  /\ RankOf(suggested_fixes[i]) = RankOf(suggested_fixes[j])
                        => PlaceProduced(suggested_fixes[i]) < PlaceProduced(suggested_fixes[j])

\* the backend produced low, critical, low: the critical fix comes first and the two
\* low ones keep their order
C17_Witness ==
    /\ FixesSuggested
    /\ BackendAskedFor("fix")
    /\ BackendJsonOk(model.fix)
    /\ Len(produced_fixes) = 3
    /\ produced_fixes[1].priority = PyStr("low")
    /\ produced_fixes[2].priority = PyStr("critical")
    /\ produced_fixes[3].priority = PyStr("low")
    /\ suggested_fixes = << produced_fixes[2], produced_fixes[1], produced_fixes[3] >>

\* C18: the template fallback converts the first five violations at most: for n
\* violations it produces min(n, 5) fixes, the i-th for the i-th violation, with that
\* violation's id as violation_id and its severity as priority; a violation after
\* the fifth has no fix, neither among the produced nor among the returned ones.
C18_FirstFiveOnly ==
    TemplatesUsed =>
        /\ Len(produced_fixes) = Min(Len(AuditedViolations), 5)
        /\ Len(suggested_fixes) = Len(produced_fixes)
        /\ \A i \in 1..Len(produced_fixes) :
              /\ "id" \in DOMAIN AuditedViolations[i]
                    => produced_fixes[i].violation_id = AuditedViolations[i].id
              /\ "severity" \in DOMAIN AuditedViolations[i]
                    => produced_fixes[i].priority = AuditedViolations[i].severity
        /\ \A i \in 6..Len(AuditedViolations) :
              /\ \A k \in 1..Len(produced_fixes) :
                    produced_fixes[k].violation_id # AuditedViolations[i].id
              /\ \A k \in 1..Len(suggested_fixes) :
                    suggested_fixes[k].violation_id # AuditedViolations[i].id

\* seven violations, five fixes: the fifth fix is the fifth violation's
C18_Witness ==
    /\ TemplatesUsed
    /\ Len(AuditedViolations) = 7
    /\ Len(produced_fixes) = 5
    /\ produced_fixes[5].violation_id = AuditedViolations[5].id
    /\ produced_fixes[5].priority = AuditedViolations[5].severity
    /\ AuditedViolations[7].id = "v7"

(***************************************************************************)
(* RegulationParser                                                        *)
(***************************************************************************)
\* the backend answers the parse prompt with valid JSON
BackendParses ==
    model.configured /\ ~model.parse.raises /\ JsonLoadsOk(StripFences(model.parse))

\* the regulation the first source that yields one gives for a name, the sources
\* taken in the order cache, file, backend, built-in table; cache and files are those
\* at the time of the call
FirstYield(name) ==
    IF name \in DOMAIN regulation_cache THEN regulation_cache[name]
    ELSE IF regulation_files[name] = "valid" THEN FileRegulation(name)
    ELSE IF BackendParses THEN model.parse.payload
    ELSE _parse_with_fallback(name)

\* entry k of the log is a source consulted only because every earlier source had
\* yielded nothing for that name
ConsultedInTurn(log, k) ==
    LET name == log[k].key
        missed == name \notin DOMAIN regulation_cache
        no_file == regulation_files[name] # "valid"
    IN  CASE log[k].source = "cache" -> TRUE
          [] log[k].source = "file" ->
                missed /\ k > 1 /\ log[k - 1] = Consult("cache", name)
          [] log[k].source = "backend" ->
                missed /\ no_file /\ model.configured
                  /\ k > 1 /\ log[k - 1] = Consult("file", name)
          [] log[k].source = "table" ->
                missed /\ no_file /\ ~BackendParses /\ k > 1
                  /\ log[k - 1] = (IF model.configured THEN Consult("backend", name)
                                   ELSE Consult("file", name))
          [] OTHER -> FALSE

\* the built-in table has 3 requirements and a penalty percentage for GDPR, CCPA, AI_ACT
TableEntries ==
    \A name \in {"GDPR", "CCPA", "AI_ACT"} :
        /\ _parse_with_fallback(name).key_requirements = 3
        /\ _parse_with_fallback(name).max_fine_percentage > 0

\* C19: parse_regulations resolves every requested name from the first source that
\* yields a regulation, in the order cache, regulation file, backend answer, built-in
\* table (3 requirements and a penalty percentage for GDPR, CCPA and AI_ACT), and it
\* consults a source only when every earlier one has yielded nothing for the name.
C19_SourcesInOrder ==
    [][pc = "parse" /\ pc' = "audit" =>
          /\ TableEntries
          /\ \A i \in 1..Len(regulations.items) :
                parsed_regulations'[regulations.items[i]] = FirstYield(regulations.items[i])
          /\ \A k \in 1..Len(consulted') : ConsultedInTurn(consulted', k)
          /\ \A i \in 1..Len(regulations.items) :
                \E k \in 1..Len(consulted') :
                    consulted'[k] = Consult("cache", regulations.items[i])]_vars

\* second request: the GDPR file has been written since the first one, and GDPR still
\* comes from the cache, which holds the table's entry; only the cache was consulted
C19_Witness ==
    /\ pc = "audit"
    /\ requests = 2
    /\ ~model.configured
    /\ regulations = PyRegulations(<<"GDPR">>)
    /\ regulation_files["GDPR"] = "valid"
    /\ parsed_regulations["GDPR"] = _parse_with_fallback("GDPR")
    /\ parsed_regulations["GDPR"] # FileRegulation("GDPR")
    /\ consulted = << Consult("cache", "GDPR") >>

\* no source but the built-in default is left for a name: it is not in the table, not
\* cached, has no readable file, and no backend answer parses
Unresolvable(name) ==
    /\ name \notin {"GDPR", "CCPA", "AI_ACT"}
    /\ name \notin DOMAIN regulation_cache
    /\ regulation_files[name] # "valid"
    /\ ~BackendParses

\* C20: parse_regulations raises nothing to its caller and returns an entry for every
\* requested name; a name outside the built-in table that neither cache, file nor
\* backend resolves gets the empty regulation (no requirements, no applicable systems)
\* with max_fine_percentage 0.04.
C20_EveryNameHasAnEntry ==
    [][pc = "parse" /\ regulations.type = "list" =>
          /\ pc' = "audit"
          /\ ~propagated'
          /\ DOMAIN parsed_regulations' =
                { regulations.items[i] : i \in 1..Len(regulations.items) }
          /\ \A i \in 1..Len(regulations.items) :
                Unresolvable(regulations.items[i]) =>
                    parsed_regulations'[regulations.items[i]] =
                        Regulation(regulations.items[i], 0, 0, 40)]_vars

\* HIPAA asked of a system whose backend raises: the empty regulation, after cache,
\* file, backend and table were gone through
C20_Witness ==
    /\ pc = "audit"
    /\ model.configured /\ model.parse.raises
    /\ regulations = PyRegulations(<<"GDPR", "HIPAA">>)
    /\ DOMAIN parsed_regulations = {"GDPR", "HIPAA"}
    /\ parsed_regulations["HIPAA"] = Regulation("HIPAA", 0, 0, 40)
    /\ \E k \in 1..Len(consulted) : consulted[k] = Consult("table", "HIPAA")

\* the names requested of the parser since the system was built: each request of a
\* name starts with a look into the cache
EverRequested == { parser_log[k].key : k \in 1..Len(parser_log) }

\* positions of the log at which a source was consulted for a name
ConsultsOf(source, name) ==
    { k \in 1..Len(parser_log) : parser_log[k] = Consult(source, name) }

\* the file, the backend and the table are consulted for a name only in its first
\* request, that is before the cache is looked into for the name a second time
OnlyFirstRequestResolves(name) ==
    \A k \in ConsultsOf("file", name) \cup ConsultsOf("backend", name)
               \cup ConsultsOf("table", name) :
        Cardinality({ j \in ConsultsOf("cache", name) : j < k }) = 1

\* C21: over the successive parse_regulations calls on one parser, every name ever
\* requested is in the cache; a request for a cached name returns the cached
\* regulation and leaves it in the cache, without a file read or a backend call,
\* whichever source resolved it first; so the backend is invoked at most once per name.
C21_CachedForLife ==
    /\ [](/\ EverRequested \subseteq DOMAIN regulation_cache
          /\ \A name \in EverRequested :
                /\ OnlyFirstRequestResolves(name)
                /\ Cardinality(ConsultsOf("backend", name)) <= 1)
    /\ [][/\ \A name \in DOMAIN regulation_cache :
                /\ name \in DOMAIN regulation_cache'
                /\ regulation_cache'[name] = regulation_cache[name]
          /\ pc = "parse" /\ pc' = "audit" =>
                \A i \in 1..Len(regulations.items) :
                    regulations.items[i] \in DOMAIN regulation_cache =>
                        parsed_regulations'[regulations.items[i]] =
                            regulation_cache[regulations.items[i]]]_vars

\* second request for GDPR, first resolved by the backend: the backend's answer is
\* returned from the cache although a regulation file exists by now, and the backend
\* was asked once in all
C21_Witness ==
    /\ pc = "audit"
    /\ requests = 2
    /\ regulations = PyRegulations(<<"GDPR">>)
    /\ regulation_files["GDPR"] = "valid"
    /\ BackendParses
    /\ parsed_regulations["GDPR"] = model.parse.payload
    /\ parsed_regulations["GDPR"] # FileRegulation("GDPR")
    /\ Cardinality(ConsultsOf("backend", "GDPR")) = 1
    /\ Cardinality(ConsultsOf("cache", "GDPR")) = 2
    /\ consulted = << Consult("cache", "GDPR") >>

(***************************************************************************)
(* ComplianceMonitor: order of the steps                                   *)
(***************************************************************************)
\* the place of a step in analyze_compliance
Position(step) ==
    CASE step = "parse" -> 1 [] step = "audit" -> 2 [] step = "score" -> 3
      [] step = "fixes" -> 4 [] step = "risk" -> 5 [] step = "report" -> 6
      [] step = "return" -> 7 [] OTHER -> 8

\* step k has left no trace: its local is as before the call, and the component it
\* calls has consulted nothing
Unset(k) ==
    CASE k = 1 -> parsed_regulations = << >> /\ consulted = << >>
      [] k = 2 -> /\ audit_results = << >>
                  /\ \A j \in 1..Len(consulted) : consulted[j] # Consult("backend", "audit")
      [] k = 3 -> compliance_score = NoScore
      [] k = 4 -> /\ suggested_fixes = << >>
                  /\ \A j \in 1..Len(consulted) : consulted[j] # Consult("backend", "fix")
      [] k = 5 -> risk_level = "" /\ estimated_fine = PyNone
      [] k = 6 -> audit_report = NoResult
      [] OTHER -> result = NoResult

\* the call ended in its except branch
EndedWithError == pc = "done" /\ "error" \in DOMAIN result

\* C22: within one analyze_compliance call the steps run one after the other in the
\* order parse, audit, score, fixes, risk, report, return: a step starts only when the
\* one before it has completed, the auditor gets the parser's output and the fix
\* suggester the auditor's output, and once a step raises no later step runs.
C22_StrictlySequential ==
    /\ [](pc # "done" => \A k \in Position(pc)..7 : Unset(k))
    /\ [][/\ pc # "done"
          /\ \/ /\ Position(pc') = Position(pc) + 1
                /\ "error" \notin DOMAIN result'
             \/ /\ EndedWithError'
                /\ UNCHANGED <<parsed_regulations, audit_results, compliance_score,
                               suggested_fixes, risk_level, estimated_fine,
                               audit_report, consulted>>
          /\ pc = "audit" =>
                audit_results' = audit_systems(model, company_data,
                                               DOMAIN parsed_regulations)
          /\ pc = "fixes" =>
                suggested_fixes' = suggest_fixes(model, audit_results, company_data)]_vars

\* the score step raised on a backend audit that reported a violation: the call ended
\* there, no fix was asked of the backend, no risk assessed, no report rendered
C22_Witness ==
    /\ EndedWithError
    /\ model.configured
    /\ audit_results # << >>
    /\ Len(audit_results.violations) > 0
    /\ compliance_score = NoScore
    /\ \A k \in 4..6 : Unset(k)

(***************************************************************************)
(* The backend is asked once                                               *)
(***************************************************************************)
\* how often the backend was asked about a key during the call
BackendCalls(key) ==
    Cardinality({ k \in 1..Len(consulted) : consulted[k] = Consult("backend", key) })

\* C23: no backend call is repeated within one analyze_compliance call: the backend
\* is asked at most once per regulation name that is not cached, at most once for the
\* audit and at most once for the fixes; and when the call fails the step gives its
\* local result at once: the built-in table, the rule-based audit, the template fixes.
C23_NoRetry ==
    /\ \A key \in RegulationNames \cup {"audit", "fix"} : BackendCalls(key) <= 1
    /\ \A k \in 1..Len(consulted) :
          consulted[k].source = "backend" /\ consulted[k].key \in RegulationNames
            /\ ~BackendJsonOk(model.parse) =>
                /\ k < Len(consulted)
                /\ consulted[k + 1] = Consult("table", consulted[k].key)
                /\ parsed_regulations[consulted[k].key] =
                      _parse_with_fallback(consulted[k].key)
    /\ pc = "score" /\ BackendCalls("audit") = 1 /\ ~BackendJsonOk(model.audit) =>
          audit_results = audit_systems(NoModel, company_data, DOMAIN parsed_regulations)
    /\ pc = "risk" /\ BackendCalls("fix") = 1 /\ ~BackendJsonOk(model.fix) =>
          suggested_fixes = suggest_fixes(NoModel, audit_results, company_data)

\* every call of the backend fails: it was asked once for each of three names, once
\* for the audit and once for the fixes, and the fixes are those of the templates
C23_Witness ==
    /\ pc = "risk"
    /\ model = FailingModel
    /\ \A key \in {"GDPR", "CCPA", "AI_ACT", "audit", "fix"} : BackendCalls(key) = 1
    /\ Len(consulted) = 14
    /\ Len(suggested_fixes) > 0

(***************************************************************************)
(* SystemAuditor: the rule-based audit                                     *)
(***************************************************************************)
\* the audit was made by the rules and they completed: none of them raised
RulesCompleted ==
    /\ pc = "score"
    /\ RuleBasedAudit
    /\ ~_audit_with_rules(company_data, DOMAIN parsed_regulations).raised

\* C24: a rule-based audit result reports total_checks = number of violations + 5 and
\* passed_checks = max(0, 5 - number of violations); so total_checks >= 5 and
\* passed_checks >= 0.
C24_RuleBasedCounts ==
    RulesCompleted =>
        LET n == Len(audit_results.violations)
        IN  /\ audit_results.total_checks = PyInt(n + 5)
            /\ audit_results.passed_checks = PyInt(IF 5 - n > 0 THEN 5 - n ELSE 0)
            /\ audit_results.total_checks.n >= 5
            /\ audit_results.passed_checks.n >= 0

\* four violations found by the rules: 9 checks, 1 passed
C24_Witness ==
    /\ RulesCompleted
    /\ Len(audit_results.violations) = 4
    /\ audit_results.total_checks = PyInt(9)
    /\ audit_results.passed_checks = PyInt(1)

(***************************************************************************)
(* Backend answers inside a code block                                     *)
(***************************************************************************)
\* the answer is valid JSON inside a code block: opened with the json language tag or
\* with a bare fence, and closed
FencedJson(r) == ~r.raises /\ r.open \in {"json", "bare"} /\ r.close /\ r.valid

\* C25: a backend answer that is valid JSON inside a code block, opened with the json
\* tag or with a bare fence, is unwrapped and used: the parser returns its payload for
\* the names it asked the backend about, the auditor validates and returns it, and
\* the fix suggester takes its fixes from it.
C25_FencedJsonAccepted ==
    /\ pc = "audit" /\ model.configured /\ FencedJson(model.parse) =>
          \A name \in DOMAIN parsed_regulations :
              BackendCalls(name) = 1 => parsed_regulations[name] = model.parse.payload
    /\ pc = "score" /\ model.configured /\ FencedJson(model.audit) =>
          audit_results = _validate_audit_results(model.audit.payload)
    /\ pc = "risk" /\ BackendCalls("fix") = 1 /\ FencedJson(model.fix)
         /\ model.fix.payload.kind = "array" =>
          produced_fixes = model.fix.payload.items

(***************************************************************************)
(* The cache under overlapping calls                                       *)
(***************************************************************************)
\* C26: under any interleaving of parse_regulations calls that share one parser, an
\* entry of regulation_cache is never replaced by a different value once it is there,
\* and two callers that asked for the same name hold the same regulation for it.
C26_CacheEntriesImmutable ==
    /\ [][\A name \in DOMAIN regulation_cache :
              /\ name \in DOMAIN regulation_cache'
              /\ regulation_cache'[name] = regulation_cache[name]]_vars
    /\ [](\A c \in DOMAIN callers, d \in DOMAIN callers :
              \A name \in DOMAIN callers[c].regulations
                            \cap DOMAIN callers[d].regulations :
                  callers[c].regulations[name] = callers[d].regulations[name])

(***************************************************************************)
(* Violations of unknown severity                                          *)
(***************************************************************************)
KnownSeverities == {PyStr("critical"), PyStr("high"), PyStr("medium"), PyStr("low")}

\* the audit reported violations, and each carries a severity that is none of
\* critical, high, medium, low
OnlyUnknownSeverities ==
    /\ audit_results # << >>
    /\ Len(audit_results.violations) > 0
    /\ \A i \in 1..Len(audit_results.violations) :
          /\ "severity" \in DOMAIN audit_results.violations[i]
          /\ audit_results.violations[i].severity.type = "str"
          /\ audit_results.violations[i].severity \notin KnownSeverities

\* an unknown severity weighs 1 in the score and counts 0 points in the risk
UnknownSeverityDefaults ==
    \A severity \in BackendSeverities \ KnownSeverities :
        severity_weights(severity) = 1 /\ severity_points(severity) = 0

\* the risk is low and the fine is 1 percent of the revenue (none without a revenue)
LowRiskOnePercent ==
    /\ risk_level = "low"
    /\ estimated_fine = EstimatedFine(Get(company_data, "revenue", PyInt(0)), 1).value

\* C27 as stated: an unknown severity weighs 1 in the score and counts 0 points in the
\* risk; so a non-empty violation list of unknown severities only gives a score below
\* 100 and yet the risk level low with the fine percentage 0.01.
C27_UnknownSeverity ==
    /\ UnknownSeverityDefaults
    /\ pc = "report" /\ OnlyUnknownSeverities =>
          /\ compliance_score.num < 100 * compliance_score.den
          /\ LowRiskOnePercent

\* C27 as amended: the score is below 100 when total_checks is positive; with
\* total_checks 0 it is 100.
C27_UnknownSeverityPositiveChecks ==
    /\ UnknownSeverityDefaults
    /\ pc = "report" /\ OnlyUnknownSeverities =>
          /\ audit_results.total_checks.n > 0 =>
                compliance_score.num < 100 * compliance_score.den
          /\ audit_results.total_checks.n = 0 =>
                compliance_score.num = 100 * compliance_score.den
          /\ LowRiskOnePercent

\* three violations of severity "severe" over one check: score 70, risk low, and a
\* fine of 1 percent of the revenue 1234.56, rounded to cents
C27_Witness ==
    /\ pc = "report"
    /\ OnlyUnknownSeverities
    /\ Len(audit_results.violations) = 3
    /\ audit_results.total_checks = PyInt(1)
    /\ compliance_score = [num |-> 70, den |-> 1]
    /\ risk_level = "low"
    /\ company_data.revenue = PyFloat(123456)
    /\ estimated_fine = PyFloat(1235)

(***************************************************************************)
(* Inputs and violations are left as they are                              *)
(***************************************************************************)
\* C28: the pipeline changes neither its inputs nor the violations: the company data
\* and the regulation list stay as passed in, the audit result stays as the auditor
\* returned it through scoring, fix suggestion, risk assessment and report rendering,
\* and on the normal path the result carries exactly the auditor's violations (same
\* elements, order and field values) and the regulation list that was passed in.
C28_InputsAndViolationsUntouched ==
    /\ [][/\ company_data' = company_data
          /\ regulations' = regulations
          /\ pc \in {"score", "fixes", "risk", "report", "return"} =>
                audit_results' = audit_results]_vars
    /\ [](Completed =>
              /\ result.violations = audit_results.violations
              /\ result.regulations = regulations.items)

\* a completed call on seven backend-reported violations of which the templates
\* converted five: the result lists all seven, as audited
C28_Witness ==
    /\ Completed
    /\ Len(audit_results.violations) = 7
    /\ Len(result.suggested_fixes) = 5
    /\ result.violations = audit_results.violations
    /\ result.violations = model.audit.payload.d.violations
    /\ result.regulations = <<"GDPR", "CCPA", "AI_ACT">>

(***************************************************************************)
(* What the rule-based audit can report at most                            *)
(***************************************************************************)
\* the number of audited violations of one regulation
ViolationsOf(regulation) ==
    Cardinality({ i \in 1..Len(audit_results.violations) :
                    audit_results.violations[i].regulation = regulation })

\* C29: without a backend, for a well-formed company profile and any regulation list,
\* the audit reports at most 4 violations (at most 2 of GDPR, 1 of CCPA, 1 of AI_ACT)
\* whose severity points sum to at most 18, the returned risk level is never critical,
\* and the compliance score is at least 100 - 100/9 (88.89 when rounded).
C29_RuleBasedWorstCase ==
    ~model.configured /\ regulations.type = "list" /\ WellFormed(company_data) =>
        /\ pc \notin {"parse", "audit"} =>
              /\ Len(audit_results.violations) <= 4
              /\ ViolationsOf("GDPR") <= 2
              /\ ViolationsOf("CCPA") <= 1
              /\ ViolationsOf("AI_ACT") <= 1
              /\ RiskLoop(audit_results.violations, 1, 0) <= 18
        /\ pc \notin {"parse", "audit", "score"} =>
              9 * compliance_score.num >= 800 * compliance_score.den
        /\ risk_level # "critical"
        /\ pc = "done" => result.risk_level # "critical"
        /\ Completed => result.compliance_score.n >= 8889

\* the worst case: all three regulations, 12 data categories stored globally, an AI
\* model and 60000 users give 4 violations, 18 points, risk high and the score 800/9
C29_Witness ==
    /\ Completed
    /\ ~model.configured
    /\ WellFormed(company_data)
    /\ Len(audit_results.violations) = 4
    /\ RiskLoop(audit_results.violations, 1, 0) = 18
    /\ compliance_score = [num |-> 800, den |-> 9]
    /\ result.compliance_score = PyFloat(8889)
    /\ result.risk_level = "high"

(***************************************************************************)
(* An audit that cannot be completed                                       *)
(***************************************************************************)
\* the rules were run, without a backend or after a failed backend call, and raised
RulesRaised ==
    /\ RuleBasedAudit
    /\ _audit_with_rules(company_data, DOMAIN parsed_regulations).raised

\* the backend's audit answer is JSON that is not an object
AuditAnswerNoObject ==
    /\ model.configured
    /\ BackendJsonOk(model.audit)
    /\ model.audit.payload.kind # "object"

\* C30: when the auditor cannot complete, because the rule-based checks raise or the
\* backend's JSON is not an object, audit_systems returns the default audit result
\* (total_checks 0, no violations) and analyze_compliance returns a normal result:
\* compliance_score 100.0, no violations, no fixes, risk_level "low", estimated_fine
\* 0.0, and not the degraded result with score 0 and risk "unknown".
C30_DefaultAuditLooksCompliant ==
    /\ regulations.type = "list"
    /\ pc \notin {"parse", "audit"}
    /\ RulesRaised \/ AuditAnswerNoObject
    =>
    /\ audit_results.total_checks = PyInt(0)
    /\ audit_results.violations = << >>
    /\ audit_results = _get_default_audit_results
    /\ pc = "done" =>
          /\ Completed
          /\ result.compliance_score = PyFloat(10000)
          /\ result.violations = << >>
          /\ result.suggested_fixes = << >>
          /\ result.risk_level = "low"
          /\ result.estimated_fine = PyFloat(0)

\* GDPR audited for a company whose data_collected is null, after the backend call
\* failed: the rules raise, and the call returns score 100.0 and risk low
C30_Witness ==
    /\ Completed
    /\ model = FailingModel
    /\ company_data.data_collected = PyNone
    /\ "GDPR" \in DOMAIN parsed_regulations
    /\ RulesRaised
    /\ result.compliance_score = PyFloat(10000)
    /\ result.risk_level = "low"
    /\ result.estimated_fine = PyFloat(0)

====
